---- MODULE Spec2Model ----
(***************************************************************************)
(* A model of the animation gallery: the ring/gradient geometry of the     *)
(* live-border components, the metal preset lookup, the chromatic          *)
(* dispersion of the liquid-metal shaders, and the shader components'      *)
(* compile/clock behaviour.                                                *)
(*                                                                         *)
(* Every component is modelled by its own variables and its own            *)
(* specification (SpecStops, SpecRing, ...): a specification moves one     *)
(* component and holds the others at rest.                                 *)
(***************************************************************************)
EXTENDS Integers, Sequences, FiniteSets, TLC

VARIABLES
    gpComp,         \* gradient stops: the ring component that is mounted
    gpColors,       \* its `colors` prop
    gpUniform,      \* its `uniformColors` prop
    gradientProps,  \* its memoised gradientProps {colors, positions}
    ringHost,       \* ring geometry: the component the screen mounts
    cardProps,      \* the props of AdaptableSkiaLiveBorderCard, when it is the host
    ringProps,      \* the props of each mounted ring component
    clipPath,       \* the memoised clipPath of each mounted ring component
    metalProps,     \* metal lookup: the metal / customHighlight / customShadow props
    metalColors,    \* the memoised metalColors of the shader component
    metalWarned,    \* whether computing metalColors wrote a console warning
    shVariant,      \* shader maths: the shader source that runs
    shUniforms,     \* the uniform bundle of the frame
    shPixel,        \* the values main has computed for the pixel it shades
    stripe,         \* the three per-channel stripe positions of that pixel
    scComp,         \* shader component: which of the three is mounted
    scShader,       \* its memoised RuntimeEffect, and how often Make has run
    scOutput,       \* what its latest render returned
    scRenders,      \* how many times it has rendered
    scSpeed,        \* its `speed` prop, in tenths
    clock,          \* the value of useClock(), in ms
    iTime,          \* iTime of the bundle of the latest frame, in 1/10000 s
    rotDuration,    \* rotation: the card's `duration` prop, in ms
    rotAnim,        \* the withRepeat(withTiming(360)) animation that is running
    rotation,       \* the shared value `rotation`, in degrees
    rotRevs,        \* revolutions completed since the mount
    pulseProps,     \* pulse: the pulsate props of SkiaRingGlow
    pulseOpacity,   \* the shared value pulseOpacity, in hundredths
    pulseScale,     \* the shared value pulseScale, in hundredths
    pulseAnim,      \* the repeating animations of the two, when they run
    csColors,
    csUniform,
    csShowGlow,
    csStops,
    pcProps,
    isExpanded,
    animationProgress,
    flipProgress,
    pcMeasures,
    pcTimers,
    pcFlipped,
    ktProps,
    progress,
    isAnimating,
    ktSpring,
    ktTimers,
    ktStarts,
    ktRefCalled,
    ktAfterReset,
    ktShown,
    ktExternal,
    ktIgnored,
    sfUniforms,
    sfPixel,
    sfColour,
    eqProps,
    eqColors,
    eqUniform,
    eqRotation,
    eqClosure,
    eqStatic,
    eqAnimated,
    edShader,
    edInput,
    edEdge,
    dvShader,
    dvUniforms,
    dvBump,
    dvDivisors,
    fcFlip,
    fcFront,
    fcBack,
    imFrom,
    imTo,
    imT,
    imColors,
    chProps,
    chProgress,
    chStyles,
    startAnimation,
    gbRotateX,
    playIcon,
    gbWrites,
    gbReactionDue,
    gbScheduled,
    gbPresses

stopsVars == <<gpComp, gpColors, gpUniform, gradientProps>>
ringVars == <<ringHost, cardProps, ringProps, clipPath>>

metalVars == <<metalProps, metalColors, metalWarned>>
mathVars == <<shVariant, shUniforms, shPixel, stripe>>

shaderVars == <<scComp, scShader, scOutput, scRenders, scSpeed, clock, iTime>>
rotVars == <<rotDuration, rotAnim, rotation, rotRevs>>
pulseVars == <<pulseProps, pulseOpacity, pulseScale, pulseAnim>>
cardStopsVars == <<csColors, csUniform, csShowGlow, csStops>>
portalVars ==
    <<pcProps, isExpanded, animationProgress, flipProgress, pcMeasures, pcTimers,
      pcFlipped>>
kineticVars ==
    <<ktProps, progress, isAnimating, ktSpring, ktTimers, ktStarts, ktRefCalled,
      ktAfterReset, ktShown, ktExternal, ktIgnored>>
sensorVars == <<sfUniforms, sfPixel, sfColour>>
equivVars ==
    <<eqProps, eqColors, eqUniform, eqRotation, eqClosure, eqStatic, eqAnimated>>
edgeVars == <<edShader, edInput, edEdge>>
divVars == <<dvShader, dvUniforms, dvBump, dvDivisors>>
facesVars == <<fcFlip, fcFront, fcBack>>
interpVars == <<imFrom, imTo, imT, imColors>>
charsVars == <<chProps, chProgress, chStyles>>
glowCardVars == <<startAnimation, gbRotateX, playIcon, gbWrites, gbReactionDue, gbScheduled, gbPresses>>

vars == <<stopsVars, ringVars, metalVars, mathVars, shaderVars, rotVars, pulseVars,
         cardStopsVars,
         portalVars,
         kineticVars,
         sensorVars,
         equivVars,
         edgeVars,
         divVars,
         facesVars,
         interpVars,
         charsVars,
         glowCardVars>>

\* What each component's actions leave alone: the other components.
StopsFrame ==
    UNCHANGED <<ringVars, metalVars, mathVars, shaderVars, rotVars, pulseVars,
                cardStopsVars,
                portalVars,
                kineticVars,
                sensorVars,
                equivVars,
                edgeVars,
                divVars,
                facesVars,
                interpVars,
                charsVars,
                glowCardVars>>

RingFrame ==
    UNCHANGED <<stopsVars, metalVars, mathVars, shaderVars, rotVars, pulseVars,
                cardStopsVars,
                portalVars,
                kineticVars,
                sensorVars,
                equivVars,
                edgeVars,
                divVars,
                facesVars,
                interpVars,
                charsVars,
                glowCardVars>>

MetalFrame ==
    UNCHANGED <<stopsVars, ringVars, mathVars, shaderVars, rotVars, pulseVars,
                cardStopsVars,
                portalVars,
                kineticVars,
                sensorVars,
                equivVars,
                edgeVars,
                divVars,
                facesVars,
                interpVars,
                charsVars,
                glowCardVars>>

MathFrame ==
    UNCHANGED <<stopsVars, ringVars, metalVars, shaderVars, rotVars, pulseVars,
                cardStopsVars,
                portalVars,
                kineticVars,
                sensorVars,
                equivVars,
                edgeVars,
                divVars,
                facesVars,
                interpVars,
                charsVars,
                glowCardVars>>

ShaderFrame ==
    UNCHANGED <<stopsVars, ringVars, metalVars, mathVars, rotVars, pulseVars,
                cardStopsVars,
                portalVars,
                kineticVars,
                sensorVars,
                equivVars,
                edgeVars,
                divVars,
                facesVars,
                interpVars,
                charsVars,
                glowCardVars>>

RotFrame ==
    UNCHANGED <<stopsVars, ringVars, metalVars, mathVars, shaderVars, pulseVars,
                cardStopsVars,
                portalVars,
                kineticVars,
                sensorVars,
                equivVars,
                edgeVars,
                divVars,
                facesVars,
                interpVars,
                charsVars,
                glowCardVars>>

PulseFrame ==
    UNCHANGED <<stopsVars, ringVars, metalVars, mathVars, shaderVars, rotVars,
                cardStopsVars,
                portalVars,
                kineticVars,
                sensorVars,
                equivVars,
                edgeVars,
                divVars,
                facesVars,
                interpVars,
                charsVars,
                glowCardVars>>

CardStopsFrame ==
    UNCHANGED <<stopsVars, ringVars, metalVars, mathVars, shaderVars, rotVars,
                pulseVars,
                portalVars,
                kineticVars,
                sensorVars,
                equivVars,
                edgeVars,
                divVars,
                facesVars,
                interpVars,
                charsVars,
                glowCardVars>>

PortalFrame ==
    UNCHANGED <<stopsVars, ringVars, metalVars, mathVars, shaderVars, rotVars,
                pulseVars, cardStopsVars,
                kineticVars,
                sensorVars,
                equivVars,
                edgeVars,
                divVars,
                facesVars,
                interpVars,
                charsVars,
                glowCardVars>>

KineticFrame ==
    UNCHANGED <<stopsVars, ringVars, metalVars, mathVars, shaderVars, rotVars,
                pulseVars, cardStopsVars, portalVars,
                sensorVars,
                equivVars,
                edgeVars,
                divVars,
                facesVars,
                interpVars,
                charsVars,
                glowCardVars>>

SensorFrame ==
    UNCHANGED <<stopsVars, ringVars, metalVars, mathVars, shaderVars, rotVars,
                pulseVars, cardStopsVars, portalVars, kineticVars,
                equivVars,
                edgeVars,
                divVars,
                facesVars,
                interpVars,
                charsVars,
                glowCardVars>>

EquivFrame ==
    UNCHANGED <<stopsVars, ringVars, metalVars, mathVars, shaderVars, rotVars,
                pulseVars, cardStopsVars, portalVars, kineticVars, sensorVars,
                edgeVars,
                divVars,
                facesVars,
                interpVars,
                charsVars,
                glowCardVars>>

EdgeFrame ==
    UNCHANGED <<stopsVars, ringVars, metalVars, mathVars, shaderVars, rotVars,
                pulseVars, cardStopsVars, portalVars, kineticVars, sensorVars,
                equivVars,
                divVars,
                facesVars,
                interpVars,
                charsVars,
                glowCardVars>>

DivFrame ==
    UNCHANGED <<stopsVars, ringVars, metalVars, mathVars, shaderVars,
                rotVars, pulseVars, cardStopsVars, portalVars, kineticVars,
                sensorVars, equivVars, edgeVars,
                facesVars,
                interpVars,
                charsVars,
                glowCardVars>>

FacesFrame ==
    UNCHANGED <<stopsVars, ringVars, metalVars, mathVars, shaderVars,
                rotVars, pulseVars, cardStopsVars, portalVars, kineticVars,
                sensorVars, equivVars, edgeVars, divVars,
                interpVars,
                charsVars,
                glowCardVars>>

InterpFrame ==
    UNCHANGED <<stopsVars, ringVars, metalVars, mathVars, shaderVars,
                rotVars, pulseVars, cardStopsVars, portalVars, kineticVars,
                sensorVars, equivVars, edgeVars, divVars, facesVars,
                charsVars,
                glowCardVars>>

CharsFrame ==
    UNCHANGED <<stopsVars, ringVars, metalVars, mathVars, shaderVars,
                rotVars, pulseVars, cardStopsVars, portalVars, kineticVars,
                sensorVars, equivVars, edgeVars, divVars, facesVars,
                interpVars,
                glowCardVars>>

GlowCardFrame ==
    UNCHANGED <<stopsVars, ringVars, metalVars, mathVars, shaderVars,
                rotVars, pulseVars, cardStopsVars, portalVars, kineticVars,
                sensorVars, equivVars, edgeVars, divVars, facesVars,
                interpVars, charsVars>>

Min(a, b) == IF a <= b THEN a ELSE b

Max(a, b) == IF a >= b THEN a ELSE b

(***************************************************************************)
(* Numbers.  The quotient i / n of two small integers is kept exact, as    *)
(* the reduced fraction <<numerator, denominator>>: two quotients are the  *)
(* same double exactly when they are the same fraction.                    *)
(***************************************************************************)
RECURSIVE Gcd(_, _)
Gcd(a, b) == IF b = 0 THEN a ELSE Gcd(b, a % b)

Quot(a, b) == <<a \div Gcd(a, b), b \div Gcd(a, b)>>

(***************************************************************************)
(* GRADIENT COLOUR STOPS                                                   *)
(***************************************************************************)
MaxColors == 3

Palette == {"#F00", "#0F0", "#00F", "#FFF"}

ColorLists == UNION {[1..n -> Palette] : n \in 0..MaxColors}

RingComponents == {"SkiaRingBorder", "AnimatedSkiaRingBorder", "SkiaRingGlow"}

\* positions: undefined (the gradient spaces the colours evenly by itself)
NoPositions == <<>>

\* The forEach loop of the SkiaRingGlow copy: i is the 0-based index.
RECURSIVE GlowStopsLoop(_, _, _)
GlowStopsLoop(colors, i, acc) ==
    IF i >= Len(colors) THEN acc
    ELSE GlowStopsLoop(colors, i + 1,
            [colors |-> acc.colors \o <<colors[i + 1], colors[i + 1]>>,
             positions |-> acc.positions
                           \o <<Quot(i, Len(colors)), Quot(i + 1, Len(colors))>>])

\* A slip in the loop: one stop per colour instead of a doubled one.
GlowStopsSingle(colors) ==
    [colors |-> colors,
     positions |-> [i \in 1..Len(colors) |-> Quot(i - 1, Len(colors))]]

createUniformColorStopsGlow(colors) ==
    GlowStopsLoop(colors, 0, [colors |-> <<>>, positions |-> <<>>])

\* The forEach loop of the SkiaRingBorder copy.
RECURSIVE BorderStopsLoop(_, _, _)
BorderStopsLoop(colors, i, acc) ==
    IF i >= Len(colors) THEN acc
    ELSE BorderStopsLoop(colors, i + 1,
            [colors |-> acc.colors \o <<colors[i + 1], colors[i + 1]>>,
             positions |-> acc.positions
                           \o <<Quot(i, Len(colors)), Quot(i + 1, Len(colors))>>])

createUniformColorStopsBorder(colors) ==
    BorderStopsLoop(colors, 0, [colors |-> <<>>, positions |-> <<>>])

\* gradientProps = useMemo(..., [colors, uniformColors]) of each component
GradientPropsGlow(colors, uniform) ==
    IF uniform THEN createUniformColorStopsGlow(colors)
    ELSE [colors |-> colors, positions |-> NoPositions]

GradientPropsBorder(colors, uniform) ==
    IF uniform THEN createUniformColorStopsBorder(colors)
    ELSE [colors |-> colors, positions |-> NoPositions]

StopsInit ==
    /\ gpComp \in RingComponents
    /\ gpColors \in ColorLists
    /\ gpUniform \in BOOLEAN
    /\ gradientProps = IF gpComp = "SkiaRingGlow"
                       THEN GradientPropsGlow(gpColors, gpUniform)
                       ELSE GradientPropsBorder(gpColors, gpUniform)

\* A render of SkiaRingGlow with new colors / uniformColors props.
RenderGlowGradient ==
    \E colors \in ColorLists, uniform \in BOOLEAN :
        /\ gpComp = "SkiaRingGlow"
        /\ gpColors' = colors
        /\ gpUniform' = uniform
        /\ gradientProps' = IF <<colors, uniform>> = <<gpColors, gpUniform>>
                            THEN gradientProps
                            ELSE GradientPropsGlow(colors, uniform)
        /\ UNCHANGED gpComp
        /\ StopsFrame

\* A render of SkiaRingBorder.
RenderBorderGradient ==
    \E colors \in ColorLists, uniform \in BOOLEAN :
        /\ gpComp = "SkiaRingBorder"
        /\ gpColors' = colors
        /\ gpUniform' = uniform
        /\ gradientProps' = IF <<colors, uniform>> = <<gpColors, gpUniform>>
                            THEN gradientProps
                            ELSE GradientPropsBorder(colors, uniform)
        /\ UNCHANGED gpComp
        /\ StopsFrame

\* A render of AnimatedSkiaRingBorder (it shares the border file's helper).
RenderAnimatedBorderGradient ==
    \E colors \in ColorLists, uniform \in BOOLEAN :
        /\ gpComp = "AnimatedSkiaRingBorder"
        /\ gpColors' = colors
        /\ gpUniform' = uniform
        /\ gradientProps' = IF <<colors, uniform>> = <<gpColors, gpUniform>>
                            THEN gradientProps
                            ELSE GradientPropsBorder(colors, uniform)
        /\ UNCHANGED gpComp
        /\ StopsFrame

StopsIdle ==
    /\ gpComp = "SkiaRingBorder"
    /\ gpColors = <<>>
    /\ gpUniform = FALSE
    /\ gradientProps = [colors |-> <<>>, positions |-> NoPositions]

(***************************************************************************)
(* RING GEOMETRY                                                           *)
(* Lengths are whole pixels.  innerPaddingPercentage is given in percent   *)
(* and glowSpread in tenths; the sizes below keep every product whole.     *)
(***************************************************************************)
Widths == {10, 300}

Heights == {10, 200}

Strokes == {5, 15, 30}

Radii == {0, 20}

BlurRadii == {0, 15}

CardWidths == {100, 300}

CardHeights == {100, 200}

PaddingPercents == {0, 5, 50, 60}

GlowSpreads == {10, 14}

\* Skia.XYWHRect and Skia.RRectXY: the values handed over, kept as they are.
XYWHRect(x, y, w, h) == [x |-> x, y |-> y, w |-> w, h |-> h]

RRectXY(rect, rx, ry) == [rect |-> rect, rx |-> rx, ry |-> ry]

\* Skia.Path.MakeFromOp(outerPath, innerPath, PathOp.Difference)
MakeFromOp(outer, inner, op) == [outer |-> outer, inner |-> inner, op |-> op]

\* useMemo(factory, deps): the cached value unless a dependency changed.
UseMemo(prevDeps, deps, prevValue, value) ==
    IF deps = prevDeps THEN prevValue ELSE value

\* A slip in the inset: the stroke taken off one side only.
SkiaRingBorderClipPathOneSide(p) ==
    MakeFromOp(
        RRectXY(XYWHRect(0, 0, p.width, p.height), p.borderRadius, p.borderRadius),
        RRectXY(XYWHRect(p.strokeWidth, p.strokeWidth,
                         p.width - p.strokeWidth, p.height - p.strokeWidth),
                Max(0, p.borderRadius - p.strokeWidth),
                Max(0, p.borderRadius - p.strokeWidth)),
        "Difference")

SkiaRingBorderClipPath(p) ==
    LET innerRadius == Max(0, p.borderRadius - p.strokeWidth) IN
    MakeFromOp(
        RRectXY(XYWHRect(0, 0, p.width, p.height), p.borderRadius, p.borderRadius),
        RRectXY(XYWHRect(p.strokeWidth, p.strokeWidth,
                         p.width - p.strokeWidth * 2, p.height - p.strokeWidth * 2),
                innerRadius, innerRadius),
        "Difference")

AnimatedSkiaRingBorderClipPath(p) ==
    LET innerRadius == Max(0, p.borderRadius - p.strokeWidth) IN
    MakeFromOp(
        RRectXY(XYWHRect(0, 0, p.width, p.height), p.borderRadius, p.borderRadius),
        RRectXY(XYWHRect(p.strokeWidth, p.strokeWidth,
                         p.width - p.strokeWidth * 2, p.height - p.strokeWidth * 2),
                innerRadius, innerRadius),
        "Difference")

\* blurPadding = blurRadius * 2; offsetX = offsetY = blurPadding
GlowOffset(p) == p.blurRadius * 2

SkiaRingGlowClipPath(p) ==
    LET innerRadius == Max(0, p.borderRadius - p.strokeWidth) IN
    MakeFromOp(
        RRectXY(XYWHRect(GlowOffset(p), GlowOffset(p), p.width, p.height),
                p.borderRadius, p.borderRadius),
        RRectXY(XYWHRect(GlowOffset(p) + p.strokeWidth, GlowOffset(p) + p.strokeWidth,
                         p.width - p.strokeWidth * 2, p.height - p.strokeWidth * 2),
                innerRadius, innerRadius),
        "Difference")

\* The dependency arrays of the three clipPath memos.
BorderClipDeps(p) == <<p.width, p.height, p.strokeWidth, p.borderRadius>>

GlowClipDeps(p) ==
    <<p.width, p.height, p.strokeWidth, p.borderRadius, GlowOffset(p), GlowOffset(p)>>

ClipPathOf(c, p) ==
    CASE c = "SkiaRingBorder" -> SkiaRingBorderClipPath(p)
      [] c = "AnimatedSkiaRingBorder" -> AnimatedSkiaRingBorderClipPath(p)
      [] c = "SkiaRingGlow" -> SkiaRingGlowClipPath(p)

ClipDepsOf(c, p) ==
    IF c = "SkiaRingGlow" THEN GlowClipDeps(p) ELSE BorderClipDeps(p)

RingPropsOf(w, h, sw, br, blur) ==
    [width |-> w, height |-> h, strokeWidth |-> sw, borderRadius |-> br,
     blurRadius |-> blur]

\* AdaptableSkiaLiveBorderCard: the sizes it derives from its props.
InnerPadding(cp) == (Min(cp.width, cp.height) * cp.innerPaddingPercentage) \div 100

\* A slip: the ring gets the content's radius as its outer radius.
OuterBorderRadiusOfContent(cp) == cp.borderRadius

OuterBorderRadius(cp) == cp.borderRadius + InnerPadding(cp)

\* The content view: style inset: innerPadding, borderRadius:
\* innerBorderRadius.
ContentView(cp) == [inset |-> InnerPadding(cp), borderRadius |-> cp.borderRadius]

Spread(x, cp) == (x * cp.glowSpread) \div 10

\* The props the card hands to its two ring children.
CardChildren(cp) ==
    LET ring == RingPropsOf(cp.width, cp.height, InnerPadding(cp),
                            OuterBorderRadius(cp), 0)
        glow == RingPropsOf(Spread(cp.width, cp), Spread(cp.height, cp),
                            Spread(InnerPadding(cp), cp),
                            Spread(OuterBorderRadius(cp), cp), cp.glowBlurRadius)
    IN  IF cp.showGlow
        THEN [c \in {"AnimatedSkiaRingBorder", "SkiaRingGlow"} |->
                 IF c = "SkiaRingGlow" THEN glow ELSE ring]
        ELSE [c \in {"AnimatedSkiaRingBorder"} |-> ring]

CardPropsSet ==
    [width : CardWidths, height : CardHeights, borderRadius : Radii,
     innerPaddingPercentage : PaddingPercents, glowSpread : GlowSpreads,
     glowBlurRadius : BlurRadii, showGlow : BOOLEAN]

DirectPropsSet(c) ==
    {RingPropsOf(w, h, sw, br, blur) :
        w \in Widths, h \in Heights, sw \in Strokes, br \in Radii,
        blur \in IF c = "SkiaRingGlow" THEN BlurRadii ELSE {0}}

\* The clip paths after a render: a child that was mounted before keeps its
\* memo unless a dependency changed; a newly mounted one computes it.
RenderedClipPaths(oldProps, oldClip, newProps) ==
    [c \in DOMAIN newProps |->
        IF c \in DOMAIN oldProps
        THEN UseMemo(ClipDepsOf(c, oldProps[c]), ClipDepsOf(c, newProps[c]),
                     oldClip[c], ClipPathOf(c, newProps[c]))
        ELSE ClipPathOf(c, newProps[c])]

RingInit ==
    /\ ringHost \in RingComponents \cup {"AdaptableSkiaLiveBorderCard"}
    /\ IF ringHost = "AdaptableSkiaLiveBorderCard"
       THEN /\ cardProps \in CardPropsSet
            /\ ringProps = CardChildren(cardProps)
       ELSE /\ cardProps = <<>>
            /\ ringProps \in [{ringHost} -> DirectPropsSet(ringHost)]
    /\ clipPath = [c \in DOMAIN ringProps |-> ClipPathOf(c, ringProps[c])]

RenderSkiaRingBorder ==
    \E p \in DirectPropsSet("SkiaRingBorder") :
        /\ ringHost = "SkiaRingBorder"
        /\ ringProps' = [c \in {"SkiaRingBorder"} |-> p]
        /\ clipPath' = RenderedClipPaths(ringProps, clipPath, ringProps')
        /\ UNCHANGED <<ringHost, cardProps>>
        /\ RingFrame

RenderAnimatedSkiaRingBorder ==
    \E p \in DirectPropsSet("AnimatedSkiaRingBorder") :
        /\ ringHost = "AnimatedSkiaRingBorder"
        /\ ringProps' = [c \in {"AnimatedSkiaRingBorder"} |-> p]
        /\ clipPath' = RenderedClipPaths(ringProps, clipPath, ringProps')
        /\ UNCHANGED <<ringHost, cardProps>>
        /\ RingFrame

RenderSkiaRingGlow ==
    \E p \in DirectPropsSet("SkiaRingGlow") :
        /\ ringHost = "SkiaRingGlow"
        /\ ringProps' = [c \in {"SkiaRingGlow"} |-> p]
        /\ clipPath' = RenderedClipPaths(ringProps, clipPath, ringProps')
        /\ UNCHANGED <<ringHost, cardProps>>
        /\ RingFrame

RenderAdaptableSkiaLiveBorderCard ==
    \E cp \in CardPropsSet :
        /\ ringHost = "AdaptableSkiaLiveBorderCard"
        /\ cardProps' = cp
        /\ ringProps' = CardChildren(cp)
        /\ clipPath' = RenderedClipPaths(ringProps, clipPath, ringProps')
        /\ UNCHANGED ringHost
        /\ RingFrame

RingIdle ==
    /\ ringHost = "none"
    /\ cardProps = <<>>
    /\ ringProps = <<>>
    /\ clipPath = <<>>

RingNext ==
    \/ RenderSkiaRingBorder
    \/ RenderAnimatedSkiaRingBorder
    \/ RenderSkiaRingGlow
    \/ RenderAdaptableSkiaLiveBorderCard

(***************************************************************************)
(* METAL PRESETS                                                           *)
(* A colour channel is kept in hundredths: 0.84 is 84.                     *)
(***************************************************************************)
METAL_PRESETS ==
    [silver   |-> [highlight |-> <<98, 98, 100>>, shadow |-> <<10, 10, 10>>],
     gold     |-> [highlight |-> <<100, 84, 0>>,  shadow |-> <<40, 25, 0>>],
     copper   |-> [highlight |-> <<72, 45, 20>>,  shadow |-> <<25, 12, 5>>],
     roseGold |-> [highlight |-> <<98, 76, 70>>,  shadow |-> <<35, 15, 12>>],
     bronze   |-> [highlight |-> <<80, 50, 20>>,  shadow |-> <<30, 15, 5>>],
     platinum |-> [highlight |-> <<90, 89, 88>>,  shadow |-> <<15, 15, 17>>],
     chrome   |-> [highlight |-> <<100, 100, 100>>, shadow |-> <<5, 5, 5>>],
     titanium |-> [highlight |-> <<62, 62, 65>>,  shadow |-> <<12, 12, 15>>],
     brass    |-> [highlight |-> <<95, 80, 30>>,  shadow |-> <<35, 28, 8>>]]

PresetNames == DOMAIN METAL_PRESETS

MetalPresetName == PresetNames \cup {"custom"}

\* An optional argument that was not passed.
Undefined == <<>>

CustomColors == {<<90, 50, 80>>, <<30, 10, 20>>, <<0, 0, 0>>}

OptionalRGB == CustomColors \cup {Undefined}

\* A slip: the custom colours win whenever both are passed.
getMetalColorsCustomFirst(preset, customHighlight, customShadow) ==
    IF customHighlight # Undefined /\ customShadow # Undefined
    THEN [colors |-> [highlight |-> customHighlight, shadow |-> customShadow],
          warned |-> FALSE]
    ELSE IF preset = "custom"
         THEN [colors |-> METAL_PRESETS.silver, warned |-> TRUE]
         ELSE [colors |-> METAL_PRESETS[preset], warned |-> FALSE]

\* A slip: the fallback taken only when both custom colours are missing.
getMetalColorsBothMissing(preset, customHighlight, customShadow) ==
    IF preset = "custom"
    THEN IF customHighlight = Undefined /\ customShadow = Undefined
         THEN [colors |-> METAL_PRESETS.silver, warned |-> TRUE]
         ELSE [colors |-> [highlight |-> customHighlight, shadow |-> customShadow],
               warned |-> FALSE]
    ELSE [colors |-> METAL_PRESETS[preset], warned |-> FALSE]

\* The colours returned, and whether console.warn was called.
getMetalColors(preset, customHighlight, customShadow) ==
    IF preset = "custom"
    THEN IF customHighlight = Undefined \/ customShadow = Undefined
         THEN [colors |-> METAL_PRESETS.silver, warned |-> TRUE]
         ELSE [colors |-> [highlight |-> customHighlight, shadow |-> customShadow],
               warned |-> FALSE]
    ELSE [colors |-> METAL_PRESETS[preset], warned |-> FALSE]

MetalPropsSet ==
    [metal : MetalPresetName, customHighlight : OptionalRGB, customShadow : OptionalRGB]

\* The shader component mounts with its props (metal defaults to "silver").
MetalInit ==
    /\ metalProps \in MetalPropsSet
    /\ metalColors = getMetalColors(metalProps.metal, metalProps.customHighlight,
                                    metalProps.customShadow).colors
    /\ metalWarned = getMetalColors(metalProps.metal, metalProps.customHighlight,
                                    metalProps.customShadow).warned

\* A render: metalColors = useMemo(() => getMetalColors(...),
\* [metal, customHighlight, customShadow]).  An array prop written inline is
\* a new object on every render, so the memo may recompute for equal values.
RenderMetalColors ==
    \E p \in MetalPropsSet, sameObjects \in BOOLEAN :
        LET hit == p = metalProps /\ sameObjects
            got == getMetalColors(p.metal, p.customHighlight, p.customShadow)
        IN  /\ metalProps' = p
            /\ metalColors' = IF hit THEN metalColors ELSE got.colors
            /\ metalWarned' = IF hit THEN metalWarned ELSE got.warned
            /\ MetalFrame

MetalIdle ==
    /\ metalProps = [metal |-> "silver", customHighlight |-> Undefined,
                     customShadow |-> Undefined]
    /\ metalColors = METAL_PRESETS.silver
    /\ metalWarned = FALSE

MetalNext == RenderMetalColors

(***************************************************************************)
(* SHADER MATHS: CHROMATIC DISPERSION                                      *)
(* A float is kept in thousandths (0.3 is 300); a product of two floats    *)
(* is rescaled by 1000.  What main computes for a pixel before the         *)
(* dispersion (bump, noise, uv.y, diagBLtoTR, edge, direction) is taken    *)
(* as the pixel's input, over values of both signs.                        *)
(***************************************************************************)
Mul(a, b) == (a * b) \div 1000

clamp(x, lo, hi) == IF x < lo THEN lo ELSE IF x > hi THEN hi ELSE x

smoothstep(e0, e1, x) ==
    LET t == clamp(((x - e0) * 1000) \div (e1 - e0), 0, 1000)
    IN  Mul(Mul(t, t), 3000 - 2 * t)

\* fract(x) = x - floor(x)
fract(x) == x - ((x \div 1000) * 1000)

Shifts == {0, 300}

SensorReadings == {-500, 1000}

SensorInfluences == {0, 700}

Bumps == {-200, 500}

Noises == {-800, 600}

UvYs == {300, 1000}

Diags == {-400, 700}

Edges == {0, 900}

Directions == {-1350, 2600}

ShaderVariants == {"simplex", "sensor"}

\* float colorDispersion = clamp(1.0 - bump, 0.0, 1.0);
colorDispersion(px) == clamp(1000 - px.bump, 0, 1000)

\* The red term before it is scaled by the shift amount.
RedTerm(px) ==
    colorDispersion(px)
    + Mul(Mul(30, px.bump), px.noise)
    + Mul(5000, Mul(Mul(smoothstep(-100, 200, px.uvy),
                        1000 - smoothstep(100, 500, px.uvy)),
                    Mul(smoothstep(400, 600, px.bump),
                        1000 - smoothstep(400, 1000, px.bump))))
    - px.diagBLtoTR

\* The blue term before it is scaled by the shift amount.
BlueTerm(px) ==
    Mul(colorDispersion(px), 1300)
    + Mul(Mul(smoothstep(0, 400, px.uvy), 1000 - smoothstep(100, 800, px.uvy)),
          Mul(smoothstep(400, 600, px.bump), 1000 - smoothstep(400, 800, px.bump)))
    - Mul(200, px.edge)

\* liquidMetalShader (simplex): dispersionRed *= (iShiftRed / 20.0)
SimplexDispersionRed(u, px) == Mul(RedTerm(px), u.iShiftRed \div 20)

SimplexDispersionBlue(u, px) == Mul(BlueTerm(px), u.iShiftBlue \div 20)

\* sensorChromaX = iSensorX * iSensorInfluence * 0.02
sensorChromaX(u) == Mul(Mul(u.iSensorX, u.iSensorInfluence), 20)

sensorChromaY(u) == Mul(Mul(u.iSensorY, u.iSensorInfluence), 20)

\* A slip: the sensor offset added after the shift scaling.
SensorDispersionRedUnscaled(u, px) ==
    Mul(RedTerm(px), u.iShiftRed \div 20) + sensorChromaX(u)

\* sensorLiquidMetalShader: the sensor offset is added before the scaling.
SensorDispersionRed(u, px) ==
    Mul(RedTerm(px) + sensorChromaX(u), u.iShiftRed \div 20)

SensorDispersionBlue(u, px) ==
    Mul(BlueTerm(px) + sensorChromaY(u), u.iShiftBlue \div 20)

\* stripe_r, stripe_g, stripe_b of the two shaders
SimplexStripes(u, px) ==
    [r |-> fract(px.direction + SimplexDispersionRed(u, px)),
     g |-> fract(px.direction),
     b |-> fract(px.direction - SimplexDispersionBlue(u, px))]

SensorStripes(u, px) ==
    [r |-> fract(px.direction + SensorDispersionRed(u, px)),
     g |-> fract(px.direction),
     b |-> fract(px.direction - SensorDispersionBlue(u, px))]

StripesOf(variant, u, px) ==
    IF variant = "sensor" THEN SensorStripes(u, px) ELSE SimplexStripes(u, px)

\* The simplex shader declares no sensor uniforms: they stay at 0 here.
UniformSet(variant) ==
    [iShiftRed : Shifts, iShiftBlue : Shifts,
     iSensorX : IF variant = "sensor" THEN SensorReadings ELSE {0},
     iSensorY : IF variant = "sensor" THEN SensorReadings ELSE {0},
     iSensorInfluence : IF variant = "sensor" THEN SensorInfluences ELSE {0}]

PixelSet ==
    [bump : Bumps, noise : Noises, uvy : UvYs, diagBLtoTR : Diags, edge : Edges,
     direction : Directions]

\* The first pixel of the first frame, under the components' default shifts.
MathInit ==
    /\ shVariant \in ShaderVariants
    /\ shUniforms = [iShiftRed |-> 300, iShiftBlue |-> 300, iSensorX |-> 0,
                     iSensorY |-> 0,
                     iSensorInfluence |-> IF shVariant = "sensor" THEN 700 ELSE 0]
    /\ shPixel = [bump |-> 500, noise |-> 600, uvy |-> 300, diagBLtoTR |-> 700,
                  edge |-> 0, direction |-> 2600]
    /\ stripe = StripesOf(shVariant, shUniforms, shPixel)

\* A new frame: the host hands over a new uniform bundle.
NewFrameSimplex ==
    \E u \in UniformSet("simplex") :
        /\ shVariant = "simplex"
        /\ shUniforms' = u
        /\ stripe' = SimplexStripes(u, shPixel)
        /\ UNCHANGED <<shVariant, shPixel>>
        /\ MathFrame

NewFrameSensor ==
    \E u \in UniformSet("sensor") :
        /\ shVariant = "sensor"
        /\ shUniforms' = u
        /\ stripe' = SensorStripes(u, shPixel)
        /\ UNCHANGED <<shVariant, shPixel>>
        /\ MathFrame

\* main runs for another pixel of the frame.
ShadePixelSimplex ==
    \E px \in PixelSet :
        /\ shVariant = "simplex"
        /\ shPixel' = px
        /\ stripe' = SimplexStripes(shUniforms, px)
        /\ UNCHANGED <<shVariant, shUniforms>>
        /\ MathFrame

ShadePixelSensor ==
    \E px \in PixelSet :
        /\ shVariant = "sensor"
        /\ shPixel' = px
        /\ stripe' = SensorStripes(shUniforms, px)
        /\ UNCHANGED <<shVariant, shUniforms>>
        /\ MathFrame

MathIdle ==
    /\ shVariant = "none"
    /\ shUniforms = <<>>
    /\ shPixel = <<>>
    /\ stripe = <<>>

MathNext ==
    \/ NewFrameSimplex
    \/ NewFrameSensor
    \/ ShadePixelSimplex
    \/ ShadePixelSensor

(***************************************************************************)
(* SHADER COMPONENTS: COMPILATION AND THE CLOCK                            *)
(* LiquidMetalShader, PerlinLiquidMetalShader and SensorLiquidMetalShader  *)
(* share this code: useClock, the uniforms worklet, useMemo(Make, []).     *)
(***************************************************************************)
MaxClock == 96

MaxRenders == 3

ShaderComponents ==
    {"LiquidMetalShader", "PerlinLiquidMetalShader", "SensorLiquidMetalShader"}

\* What Skia.RuntimeEffect.Make returns: null when the source does not compile.
MakeResults == {"null", "effect"}

Speeds == {5, 10, 20}

\* A slip: no memo, RuntimeEffect.Make runs again on the render.
ShaderRecompiled(sh, made) == [effect |-> made, compiles |-> 2]

\* shader = useMemo(() => Skia.RuntimeEffect.Make(source), []): with no
\* dependency the first render's result is kept on every later render.
ShaderOnRerender(sh, made) == sh

\* if (!shader) { console.error(...); return null; }  else the Canvas
RenderOutput(sh) == IF sh.effect = "null" THEN "null" ELSE "Canvas"

\* const time = (clock.value / 1000) * speed;
ITime(clk, speed) == clk * speed

ShaderInit ==
    /\ scComp \in ShaderComponents
    /\ scShader \in [effect : MakeResults, compiles : {1}]
    /\ scOutput = RenderOutput(scShader)
    /\ scRenders = 1
    /\ scSpeed \in Speeds
    /\ clock = 0
    /\ iTime = ITime(clock, scSpeed)

\* The parent renders the component again, with any value of `speed`; the
\* uniforms worklet closes over the new props, which the next frame shows.
ShaderRender ==
    \E speed \in Speeds, made \in MakeResults :
        /\ scRenders < MaxRenders
        /\ scRenders' = scRenders + 1
        /\ scSpeed' = speed
        /\ scShader' = ShaderOnRerender(scShader, made)
        /\ scOutput' = RenderOutput(scShader')
        /\ UNCHANGED <<scComp, clock, iTime>>
        /\ ShaderFrame

\* A frame: the clock advances and the uniforms are derived from it.
ShaderClockFrame ==
    \E dt \in {16, 32} :
        /\ clock + dt <= MaxClock
        /\ clock' = clock + dt
        /\ iTime' = ITime(clock', scSpeed)
        /\ UNCHANGED <<scComp, scShader, scOutput, scRenders, scSpeed>>
        /\ ShaderFrame

ShaderIdle ==
    /\ scComp = "none"
    /\ scShader = <<>>
    /\ scOutput = "null"
    /\ scRenders = 0
    /\ scSpeed = 10
    /\ clock = 0
    /\ iTime = 0

ShaderNext ==
    \/ ShaderRender
    \/ ShaderClockFrame

(***************************************************************************)
(* ROTATION OF THE CARD                                                    *)
(* A frame comes every 16 ms; every duration is a multiple of it.          *)
(***************************************************************************)
MaxRevs == 3

Durations == {32, 64, 96, 128}

\* withRepeat(withTiming(360, {duration, easing: Easing.linear}), -1, false)
\* started by startRotation: it captures the `duration` of that render.
StartRotation(duration) == [duration |-> duration, elapsed |-> 0]

\* The time into the running iteration at a frame dt later; an iteration
\* that finished on the last frame was restarted from there.
RotElapsed(anim, dt) ==
    (IF anim.elapsed >= anim.duration THEN 0 ELSE anim.elapsed) + dt

\* Linear timing from 0 to 360, ending on 360.
RotValue(anim, e) ==
    IF e >= anim.duration THEN 360 ELSE (360 * e) \div anim.duration

\* useSharedValue(0), then useEffect(() => startRotation(), []) on mount.
RotInit ==
    /\ rotDuration \in Durations
    /\ rotAnim = StartRotation(rotDuration)
    /\ rotation = 0
    /\ rotRevs = 0

\* The card renders again with another `duration`: the effect has no
\* dependency, so the running animation is left as it is.
RotRender ==
    \E d \in Durations :
        /\ rotDuration' = d
        /\ UNCHANGED <<rotAnim, rotation, rotRevs>>
        /\ RotFrame

RotAnimationFrame ==
    LET e == RotElapsed(rotAnim, 16) IN
        /\ rotRevs < MaxRevs
        /\ rotAnim' = [rotAnim EXCEPT !.elapsed = e]
        /\ rotation' = RotValue(rotAnim, e)
        /\ rotRevs' = IF e >= rotAnim.duration THEN rotRevs + 1 ELSE rotRevs
        /\ UNCHANGED rotDuration
        /\ RotFrame

RotIdle ==
    /\ rotDuration = 0
    /\ rotAnim = <<>>
    /\ rotation = 0
    /\ rotRevs = 0

RotNext ==
    \/ RotRender
    \/ RotAnimationFrame

(***************************************************************************)
(* PULSE OF THE GLOW                                                       *)
(* Opacities and scales are in hundredths, progress in thousandths.        *)
(***************************************************************************)
PulseDurations == {64, 128}

MinOpacities == {30, 60}

MaxOpacities == {80, 100}

PulsePropsSet ==
    [pulsate : BOOLEAN, pulsateDuration : PulseDurations,
     pulsateMinOpacity : MinOpacities, pulsateMaxOpacity : MaxOpacities]

\* Easing.inOut(Easing.ease): a monotone curve from 0 at 0 to 1 at 1,
\* taken here as the cubic 3t^2 - 2t^3.
Ease(t) == Mul(Mul(t, t), 3000 - 2 * t)

\* withRepeat(withTiming(toValue, {duration}), -1, true) assigned to a
\* shared value: the animation starts from the value it holds.
StartRepeat(current, toValue, duration) ==
    [running |-> TRUE, from |-> current, to |-> toValue, duration |-> duration,
     elapsed |-> 0]

NoAnimation == [running |-> FALSE, from |-> 0, to |-> 0, duration |-> 0, elapsed |-> 0]

\* One frame of a repeating, reversing timing animation: the value moves
\* from `from` to `to`; an iteration that ends lands on `to` and the next
\* one runs back to where this one started.
RepeatFrame(anim, dt) ==
    LET e == anim.elapsed + dt IN
    IF e >= anim.duration
    THEN [value |-> anim.to,
          anim |-> [anim EXCEPT !.from = anim.to, !.to = anim.from, !.elapsed = 0]]
    ELSE [value |-> anim.from
                    + ((anim.to - anim.from) * Ease((e * 1000) \div anim.duration))
                      \div 1000,
          anim |-> [anim EXCEPT !.elapsed = e]]

\* The body of the effect, run after a render whose dependencies changed.
PulseEffect(p, opacity, scale) ==
    IF p.pulsate
    THEN [opacity |-> opacity,
          scale |-> scale,
          anim |-> [opacity |-> StartRepeat(opacity, p.pulsateMinOpacity,
                                            p.pulsateDuration \div 2),
                    scale |-> StartRepeat(scale, 105, p.pulsateDuration \div 2)]]
    ELSE [opacity |-> p.pulsateMaxOpacity,
          scale |-> 100,
          anim |-> [opacity |-> NoAnimation, scale |-> NoAnimation]]

\* useSharedValue(pulsateMaxOpacity), useSharedValue(1), then the effect.
PulseInit ==
    /\ pulseProps \in PulsePropsSet
    /\ pulseOpacity = PulseEffect(pulseProps, pulseProps.pulsateMaxOpacity, 100).opacity
    /\ pulseScale = PulseEffect(pulseProps, pulseProps.pulsateMaxOpacity, 100).scale
    /\ pulseAnim = PulseEffect(pulseProps, pulseProps.pulsateMaxOpacity, 100).anim

\* A render with new props: useEffect(..., [pulsate, pulsateDuration,
\* pulsateMinOpacity, pulsateMaxOpacity]) runs when one of them changed.
PulseRender ==
    \E p \in PulsePropsSet :
        LET eff == PulseEffect(p, pulseOpacity, pulseScale) IN
        /\ pulseProps' = p
        /\ IF p = pulseProps
           THEN UNCHANGED <<pulseOpacity, pulseScale, pulseAnim>>
           ELSE /\ pulseOpacity' = eff.opacity
                /\ pulseScale' = eff.scale
                /\ pulseAnim' = eff.anim
        /\ PulseFrame

PulseAnimationFrame ==
    LET o == RepeatFrame(pulseAnim.opacity, 16)
        sc == RepeatFrame(pulseAnim.scale, 16)
    IN  /\ pulseAnim.opacity.running
        /\ pulseOpacity' = o.value
        /\ pulseScale' = sc.value
        /\ pulseAnim' = [opacity |-> o.anim, scale |-> sc.anim]
        /\ UNCHANGED pulseProps
        /\ PulseFrame

PulseIdle ==
    /\ pulseProps = <<>>
    /\ pulseOpacity = 0
    /\ pulseScale = 0
    /\ pulseAnim = <<>>

PulseNext ==
    \/ PulseRender
    \/ PulseAnimationFrame

(***************************************************************************)
(* COLOUR STOPS OF THE CARD                                                *)
(* AdaptableSkiaLiveBorderCard hands [...colors, colors[0]] to its ring    *)
(* and to its glow; each child derives its gradientProps from that list.   *)
(***************************************************************************)
\* [...colors, colors[0]]: colors[0] of an empty array is undefined.
SpreadWithFirst(colors) ==
    colors \o <<IF Len(colors) = 0 THEN "undefined" ELSE colors[1]>>

\* The gradientProps of the children the card mounts.
CardChildStops(colors, uniform, showGlow) ==
    LET ring == GradientPropsBorder(SpreadWithFirst(colors), uniform)
        glow == GradientPropsGlow(SpreadWithFirst(colors), uniform)
    IN  IF showGlow
        THEN [c \in {"AnimatedSkiaRingBorder", "SkiaRingGlow"} |->
                 IF c = "SkiaRingGlow" THEN glow ELSE ring]
        ELSE [c \in {"AnimatedSkiaRingBorder"} |-> ring]

CardStopsInit ==
    /\ csColors \in ColorLists
    /\ csUniform \in BOOLEAN
    /\ csShowGlow \in BOOLEAN
    /\ csStops = CardChildStops(csColors, csUniform, csShowGlow)

\* A render of the card: the spread array is a new object every time, so
\* the children's useMemo(..., [colors, uniformColors]) recomputes.
RenderCardGradient ==
    \E colors \in ColorLists, uniform \in BOOLEAN, showGlow \in BOOLEAN :
        /\ csColors' = colors
        /\ csUniform' = uniform
        /\ csShowGlow' = showGlow
        /\ csStops' = CardChildStops(colors, uniform, showGlow)
        /\ CardStopsFrame

CardStopsIdle ==
    /\ csColors = <<>>
    /\ csUniform = FALSE
    /\ csShowGlow = FALSE
    /\ csStops = <<>>

CardStopsNext == RenderCardGradient

(***************************************************************************)
(* ANIMATED PORTAL CARD                                                    *)
(* Time moves in ticks of 500 ms.  A progress value is kept in sixths:     *)
(* 0 is collapsed / front, 6 is expanded / back.                           *)
(***************************************************************************)
MaxTimers == 2

MaxMeasures == 1

ProgressOne == 6

\* SPRING_CONFIG.duration is 1500 ms; a caller may pass another duration.
SpringDurations == {2, 3}

\* The ticks a spring of flipSpringConfig (damping, stiffness, mass) takes
\* to settle.
FlipSettleTicks == {1, 2}

PortalPropsSet ==
    [springDuration : SpringDurations, flipSettle : FlipSettleTicks,
     flipOnOpen : BOOLEAN, closeOnBackdropPress : BOOLEAN]

\* useSharedValue(0)
SharedValueZero ==
    [value |-> 0, from |-> 0, to |-> 0, elapsed |-> 0, duration |-> 0,
     running |-> FALSE]

\* sv.value = withSpring(toValue, config): the spring starts from the value
\* the shared value holds and replaces the animation that was running.
withSpring(sv, toValue, ticks) ==
    [value |-> sv.value, from |-> sv.value, to |-> toValue, elapsed |-> 0,
     duration |-> ticks, running |-> TRUE]

\* One tick of a spring: it moves towards its target and settles on it
\* when its time has run.
SpringTick(sv) ==
    IF ~sv.running THEN sv
    ELSE IF sv.elapsed + 1 >= sv.duration
         THEN [sv EXCEPT !.value = sv.to, !.elapsed = sv.duration, !.running = FALSE]
         ELSE [sv EXCEPT !.value = sv.from
                                   + ((sv.to - sv.from) * (sv.elapsed + 1))
                                     \div sv.duration,
                         !.elapsed = sv.elapsed + 1]

\* const duration = springConfig.duration || 1500;
CloseDelay(props) == IF props.springDuration = 0 THEN 3 ELSE props.springDuration

\* const newValue = flipProgress.value === 0 ? 1 : 0;
FlipNewValue(fp) == IF fp.value = 0 THEN ProgressOne ELSE 0

PortalInit ==
    /\ pcProps \in PortalPropsSet
    /\ isExpanded = FALSE
    /\ animationProgress = SharedValueZero
    /\ flipProgress = SharedValueZero
    /\ pcMeasures = 0
    /\ pcTimers = <<>>
    /\ pcFlipped = <<>>

\* handleTriggerPress: if (!isExpanded) open()
HandleTriggerPress ==
    /\ ~isExpanded
    /\ pcMeasures < MaxMeasures
    /\ pcMeasures' = pcMeasures + 1
    /\ UNCHANGED <<pcProps, isExpanded, animationProgress, flipProgress, pcTimers,
                   pcFlipped>>
    /\ PortalFrame

\* ref.open(): cardRef.current?.measureInWindow(callback)
PortalOpen ==
    /\ pcMeasures < MaxMeasures
    /\ pcMeasures' = pcMeasures + 1
    /\ UNCHANGED <<pcProps, isExpanded, animationProgress, flipProgress, pcTimers,
                   pcFlipped>>
    /\ PortalFrame

\* The callback of measureInWindow: mounts the portal, starts the springs.
MeasureCallback ==
    /\ pcMeasures > 0
    /\ pcMeasures' = pcMeasures - 1
    /\ isExpanded' = TRUE
    /\ animationProgress' = withSpring(animationProgress, ProgressOne,
                                       pcProps.springDuration)
    /\ flipProgress' = IF pcProps.flipOnOpen
                       THEN withSpring(flipProgress, ProgressOne,
                                       pcProps.springDuration)
                       ELSE flipProgress
    /\ UNCHANGED <<pcProps, pcTimers, pcFlipped>>
    /\ PortalFrame

\* ref.close(): both springs run back to 0 and a timer is set for the
\* unmount.
PortalClose ==
    /\ Len(pcTimers) < MaxTimers
    /\ animationProgress' = withSpring(animationProgress, 0, pcProps.springDuration)
    /\ flipProgress' = withSpring(flipProgress, 0, pcProps.springDuration)
    /\ pcTimers' = Append(pcTimers, CloseDelay(pcProps))
    /\ UNCHANGED <<pcProps, isExpanded, pcMeasures, pcFlipped>>
    /\ PortalFrame

\* handleBackdropPress: if (closeOnBackdropPress && isExpanded) close();
\* the backdrop exists while the portal is mounted.
HandleBackdropPress ==
    /\ isExpanded
    /\ pcProps.closeOnBackdropPress
    /\ Len(pcTimers) < MaxTimers
    /\ animationProgress' = withSpring(animationProgress, 0, pcProps.springDuration)
    /\ flipProgress' = withSpring(flipProgress, 0, pcProps.springDuration)
    /\ pcTimers' = Append(pcTimers, CloseDelay(pcProps))
    /\ UNCHANGED <<pcProps, isExpanded, pcMeasures, pcFlipped>>
    /\ PortalFrame

\* ref.flip(); pcFlipped keeps the target before the call, the target
\* after it and the argument given to onFlip.
PortalFlip ==
    LET newValue == FlipNewValue(flipProgress) IN
    /\ flipProgress' = withSpring(flipProgress, newValue, pcProps.flipSettle)
    /\ pcFlipped' = [before |-> flipProgress.to, after |-> newValue,
                     onFlip |-> (newValue = 0)]
    /\ UNCHANGED <<pcProps, isExpanded, animationProgress, pcMeasures, pcTimers>>
    /\ PortalFrame

\* 500 ms pass: the springs move, the timers run down.  A timer that is
\* due fires before more time passes.
PortalTick ==
    /\ \A i \in 1..Len(pcTimers) : pcTimers[i] > 0
    /\ animationProgress.running \/ flipProgress.running \/ pcTimers # <<>>
    /\ animationProgress' = SpringTick(animationProgress)
    /\ flipProgress' = SpringTick(flipProgress)
    /\ pcTimers' = [i \in 1..Len(pcTimers) |-> pcTimers[i] - 1]
    /\ UNCHANGED <<pcProps, isExpanded, pcMeasures, pcFlipped>>
    /\ PortalFrame

\* The setTimeout callback of close(): setIsExpanded(false); onClose?.()
CloseTimerFires ==
    /\ pcTimers # <<>>
    /\ Head(pcTimers) = 0
    /\ pcTimers' = Tail(pcTimers)
    /\ isExpanded' = FALSE
    /\ UNCHANGED <<pcProps, animationProgress, flipProgress, pcMeasures, pcFlipped>>
    /\ PortalFrame

PortalIdle ==
    /\ pcProps = <<>>
    /\ isExpanded = FALSE
    /\ animationProgress = <<>>
    /\ flipProgress = <<>>
    /\ pcMeasures = 0
    /\ pcTimers = <<>>
    /\ pcFlipped = <<>>

PortalNext ==
    \/ HandleTriggerPress
    \/ PortalOpen
    \/ MeasureCallback
    \/ PortalClose
    \/ HandleBackdropPress
    \/ PortalFlip
    \/ PortalTick
    \/ CloseTimerFires

(***************************************************************************)
(* KINETIC TEXT                                                            *)
(* Time moves in ticks of 2000 ms; progress is kept in hundredths.         *)
(* Shared values are read and written in program order.                    *)
(***************************************************************************)
MaxStarts == 3

MaxAutoTimers == 2

\* SPRING_TEXT_CONFIG.duration = 6000 ms
SpringTextTicks == 3

TextLengths == {0, 5}

SliderValues == {0, 50, 100}

KineticPropsSet ==
    [autoStart : BOOLEAN, withSliderControl : BOOLEAN,
     progressValue : {"undefined", "SharedValue"}, textLength : TextLengths]

\* const totalTarget = 1 + text.length * 0.08;
TotalTarget(len) == 100 + len * 8

NoSpring == [running |-> FALSE, from |-> 0, to |-> 0, elapsed |-> 0]

\* cancelAnimation(progress): the animation stops where it is; its callback
\* runs with finished = false.
cancelAnimation(spring) == [spring EXCEPT !.running = FALSE]

\* (finished) => { if (finished) { isAnimating.value = false; ... } }
SpringCallbackStuck(finished, animating) == animating

SpringCallback(finished, animating) == IF finished THEN FALSE ELSE animating

\* if (isAnimating.value) return;
StartUnguarded(animating) == FALSE

StartReturnsEarly(animating) == animating

\* A slip: a call during the animation leaves the spring alone but calls
\* onAnimationStart once more.
startAnnouncesAgain(kt, len) ==
    IF kt.isAnimating THEN [kt EXCEPT !.starts = kt.starts + 1]
    ELSE [progress |-> kt.progress,
          isAnimating |-> TRUE,
          spring |-> [running |-> TRUE, from |-> kt.progress,
                      to |-> TotalTarget(len), elapsed |-> 0],
          starts |-> kt.starts + 1]

\* start(): the values after the call.
start(kt, len) ==
    IF StartReturnsEarly(kt.isAnimating) THEN kt
    ELSE [progress |-> kt.progress,
          isAnimating |-> TRUE,
          spring |-> [running |-> TRUE, from |-> kt.progress,
                      to |-> TotalTarget(len), elapsed |-> 0],
          starts |-> kt.starts + 1]

\* reset(): the values after the call.
resetWithoutCancel(kt) ==
    [progress |-> 0, isAnimating |-> FALSE, spring |-> kt.spring,
     starts |-> kt.starts]

reset(kt) ==
    [progress |-> 0,
     isAnimating |-> FALSE,
     spring |-> cancelAnimation(kt.spring),
     starts |-> kt.starts]

\* if (autoStart && progress.value === 0 && !isAnimating.value)
AutoStartDue(props, prog, animating) ==
    props.autoStart /\ prog = 0 /\ ~animating

\* progress={withSliderControl ? progressValue ?? progress : progress}
ProgressShownInternal(props) == "internal"

ProgressShown(props) ==
    IF props.withSliderControl
    THEN (IF props.progressValue # "undefined" THEN "external" ELSE "internal")
    ELSE "internal"

KtNow ==
    [progress |-> progress, isAnimating |-> isAnimating, spring |-> ktSpring,
     starts |-> ktStarts]

\* The first render: useSharedValue(0), useSharedValue(false), the
\* auto-start check.
KineticInit ==
    /\ ktProps \in KineticPropsSet
    /\ progress = 0
    /\ isAnimating = FALSE
    /\ ktSpring = NoSpring
    /\ ktTimers = IF AutoStartDue(ktProps, 0, FALSE) THEN 1 ELSE 0
    /\ ktStarts = 0
    /\ ktRefCalled = FALSE
    /\ ktAfterReset = FALSE
    /\ ktShown = ProgressShown(ktProps)
    /\ ktExternal = 0
    /\ ktIgnored = FALSE

\* A later render, with any props for the same text.
KineticRender ==
    \E p \in KineticPropsSet :
        /\ p.textLength = ktProps.textLength
        /\ ktProps' = p
        /\ ktTimers' = IF AutoStartDue(p, progress, isAnimating)
                          /\ ktTimers < MaxAutoTimers
                       THEN ktTimers + 1 ELSE ktTimers
        /\ ktShown' = ProgressShown(p)
        /\ UNCHANGED <<progress, isAnimating, ktSpring, ktStarts, ktRefCalled,
                       ktAfterReset, ktExternal, ktIgnored>>
        /\ KineticFrame

\* setTimeout(() => start(), 0) fires.  ktIgnored tells whether the last
\* call of start() returned at once.
AutoStartTimerFires ==
    LET after == start(KtNow, ktProps.textLength) IN
    /\ ktTimers > 0
    /\ ktStarts < MaxStarts
    /\ ktTimers' = ktTimers - 1
    /\ progress' = after.progress
    /\ isAnimating' = after.isAnimating
    /\ ktSpring' = after.spring
    /\ ktStarts' = after.starts
    /\ ktAfterReset' = FALSE
    /\ ktIgnored' = StartReturnsEarly(isAnimating)
    /\ UNCHANGED <<ktProps, ktRefCalled, ktShown, ktExternal>>
    /\ KineticFrame

\* ref.start()
KineticStart ==
    LET after == start(KtNow, ktProps.textLength) IN
    /\ ktStarts < MaxStarts
    /\ progress' = after.progress
    /\ isAnimating' = after.isAnimating
    /\ ktSpring' = after.spring
    /\ ktStarts' = after.starts
    /\ ktRefCalled' = TRUE
    /\ ktAfterReset' = FALSE
    /\ ktIgnored' = StartReturnsEarly(isAnimating)
    /\ UNCHANGED <<ktProps, ktTimers, ktShown, ktExternal>>
    /\ KineticFrame

\* ref.reset()
KineticReset ==
    LET after == reset(KtNow) IN
    /\ progress' = after.progress
    /\ isAnimating' = after.isAnimating
    /\ ktSpring' = after.spring
    /\ ktRefCalled' = TRUE
    /\ ktAfterReset' = TRUE
    /\ ktIgnored' = FALSE
    /\ UNCHANGED <<ktProps, ktTimers, ktStarts, ktShown, ktExternal>>
    /\ KineticFrame

\* 2000 ms of the running spring; when it settles its callback runs with
\* finished = true.  A 0 ms timer that is pending fires before time passes.
KineticSpringTick ==
    LET e == ktSpring.elapsed + 1
        done == e >= SpringTextTicks
    IN  /\ ktSpring.running
        /\ ktTimers = 0
        /\ ktSpring' = [ktSpring EXCEPT !.elapsed = e, !.running = ~done]
        /\ progress' = IF done THEN ktSpring.to
                       ELSE ktSpring.from
                            + ((ktSpring.to - ktSpring.from) * e) \div SpringTextTicks
        /\ isAnimating' = SpringCallback(done, isAnimating)
        /\ UNCHANGED <<ktProps, ktTimers, ktStarts, ktRefCalled, ktAfterReset,
                       ktShown, ktExternal, ktIgnored>>
        /\ KineticFrame

\* The owner of the external progress value moves it (a slider).
SliderMoves ==
    \E v \in SliderValues :
        /\ ktProps.progressValue # "undefined"
        /\ ktExternal' = v
        /\ UNCHANGED <<ktProps, progress, isAnimating, ktSpring, ktTimers, ktStarts,
                       ktRefCalled, ktAfterReset, ktShown, ktIgnored>>
        /\ KineticFrame

\* The progress every AnimatedChar is driven by.
DisplayedProgress == IF ktShown = "external" THEN ktExternal ELSE progress

KineticIdle ==
    /\ ktProps = <<>>
    /\ progress = 0
    /\ isAnimating = FALSE
    /\ ktSpring = <<>>
    /\ ktTimers = 0
    /\ ktStarts = 0
    /\ ktRefCalled = FALSE
    /\ ktAfterReset = FALSE
    /\ ktShown = "internal"
    /\ ktExternal = 0
    /\ ktIgnored = FALSE

KineticNext ==
    \/ KineticRender
    \/ AutoStartTimerFires
    \/ KineticStart
    \/ KineticReset
    \/ KineticSpringTick
    \/ SliderMoves

(***************************************************************************)
(* SENSOR-DRIVEN SHADER: WHERE THE SENSOR ENTERS main                      *)
(* Floats are in thousandths, angles in thousandths of a degree.  The      *)
(* rest of main is a function of the pixel, of the other uniforms and of   *)
(* the values below; the colour is kept as the record of these values.     *)
(***************************************************************************)
Angles == {0, 30000}

RotatedDiffs == {-400, 700}

RotatedSums == {600, 1400}

BaseBumps == {-200, 500}

ShadowReds == {100, 400}

SensorUniformSet ==
    [iSensorX : SensorReadings, iSensorY : SensorReadings,
     iSensorInfluence : SensorInfluences, iAngle : Angles, iShadowR : ShadowReds]

SensorPixelSet ==
    [diff : RotatedDiffs, sum : RotatedSums, bump : BaseBumps]

\* float sensorAngleOffset = (iSensorX * 45.0 + iSensorY * 30.0) * iSensorInfluence;
sensorAngleOffset(u) == Mul(u.iSensorX * 45 + u.iSensorY * 30, u.iSensorInfluence)

\* float sensorLightX = iSensorX * iSensorInfluence * 0.3;
sensorLightXUnscaled(u) == Mul(u.iSensorX, 300)

sensorLightX(u) == Mul(Mul(u.iSensorX, u.iSensorInfluence), 300)

sensorLightY(u) == Mul(Mul(u.iSensorY, u.iSensorInfluence), 300)

\* bump += (iSensorY * 0.1) * iSensorInfluence;
sensorBump(u) == Mul(Mul(u.iSensorY, 100), u.iSensorInfluence)

\* Every value of main that reads a sensor uniform, for one pixel.
SensorColour(u, px) ==
    [totalAngle |-> u.iAngle + sensorAngleOffset(u),
     diagBLtoTR |-> px.diff + sensorLightX(u),
     diagTLtoBR |-> px.sum + sensorLightY(u),
     color2r |-> u.iShadowR + Mul(50, sensorLightX(u)),
     gradShift |-> <<Mul(sensorLightX(u), 200), Mul(sensorLightY(u), 200)>>,
     bump |-> px.bump + sensorBump(u),
     chroma |-> <<sensorChromaX(u), sensorChromaY(u)>>]

\* The first pixel of the first frame: the device lies flat, the props are
\* the defaults (sensorInfluence 0.7, angle 30).
SensorInit ==
    /\ sfUniforms = [iSensorX |-> 0, iSensorY |-> 0, iSensorInfluence |-> 700,
                     iAngle |-> 30000, iShadowR |-> 100]
    /\ sfPixel = [diff |-> 700, sum |-> 600, bump |-> 500]
    /\ sfColour = SensorColour(sfUniforms, sfPixel)

\* A frame after the device has moved: new readings, the same props.
SensorReads ==
    \E x \in SensorReadings \cup {0}, y \in SensorReadings \cup {0} :
        /\ sfUniforms' = [sfUniforms EXCEPT !.iSensorX = x, !.iSensorY = y]
        /\ sfColour' = SensorColour(sfUniforms', sfPixel)
        /\ UNCHANGED sfPixel
        /\ SensorFrame

\* A render with other props: sensorInfluence, angle, the metal's shadow.
SensorRender ==
    \E infl \in SensorInfluences, a \in Angles, sh \in ShadowReds :
        /\ sfUniforms' = [sfUniforms EXCEPT !.iSensorInfluence = infl,
                                            !.iAngle = a, !.iShadowR = sh]
        /\ sfColour' = SensorColour(sfUniforms', sfPixel)
        /\ UNCHANGED sfPixel
        /\ SensorFrame

\* main runs for another pixel of the frame.
SensorShadesPixel ==
    \E px \in SensorPixelSet :
        /\ sfPixel' = px
        /\ sfColour' = SensorColour(sfUniforms, px)
        /\ UNCHANGED sfUniforms
        /\ SensorFrame

SensorIdle ==
    /\ sfUniforms = <<>>
    /\ sfPixel = <<>>
    /\ sfColour = <<>>

SensorNext ==
    \/ SensorReads
    \/ SensorRender
    \/ SensorShadesPixel

(***************************************************************************)
(* SkiaRingBorder AND AnimatedSkiaRingBorder SIDE BY SIDE                  *)
(* Both are mounted with the same props; the shared value handed to the    *)
(* animated one holds the number handed to the static one.                 *)
(***************************************************************************)
RotationValues == {0, 90, 180, 270}

EquivPropsSet ==
    {RingPropsOf(w, h, 15, br, 0) : w \in Widths, h \in Heights, br \in Radii}

EquivColorLists == {<<"#F00", "#0F0">>, <<"#00F", "#FFF", "#F00">>}

\* vec(width / 2, height / 2)
Center(p) == <<p.width \div 2, p.height \div 2>>

\* m.translate(c.x, c.y); m.rotate(angleRad); m.translate(-c.x, -c.y):
\* a rotation by the angle about the pivot c.
GradientMatrix(angle, c) == [pivot |-> c, angle |-> angle]

\* What SkiaRingBorder hands to Skia after a render; each useMemo lists
\* every value it reads.
SkiaRingBorderDraws(prev, prevP, p, colors, uniform, angle) ==
    [clipPath |-> UseMemo(BorderClipDeps(prevP), BorderClipDeps(p),
                          prev.clipPath, SkiaRingBorderClipPath(p)),
     stops |-> GradientPropsBorder(colors, uniform),
     center |-> Center(p),
     matrix |-> GradientMatrix(angle, Center(p))]

\* What AnimatedSkiaRingBorder hands to Skia after a render: the derived
\* value gradientMatrix is not touched by a render.
AnimatedSkiaRingBorderDraws(prev, prevP, p, colors, uniform) ==
    [clipPath |-> UseMemo(BorderClipDeps(prevP), BorderClipDeps(p),
                          prev.clipPath, AnimatedSkiaRingBorderClipPath(p)),
     stops |-> GradientPropsBorder(colors, uniform),
     center |-> Center(p),
     matrix |-> prev.matrix]

\* useDerivedValue(worklet, [rotation]): the worklet, with the centerX and
\* centerY it closed over, is replaced only when the dependency `rotation`
\* (the shared value object) is another one.
DerivedValueClosure(prevClosure, p) == prevClosure

EquivInit ==
    /\ eqProps \in EquivPropsSet
    /\ eqColors \in EquivColorLists
    /\ eqUniform \in BOOLEAN
    /\ eqRotation = 0
    /\ eqClosure = Center(eqProps)
    /\ eqStatic = [clipPath |-> SkiaRingBorderClipPath(eqProps),
                   stops |-> GradientPropsBorder(eqColors, eqUniform),
                   center |-> Center(eqProps),
                   matrix |-> GradientMatrix(0, Center(eqProps))]
    /\ eqAnimated = [clipPath |-> AnimatedSkiaRingBorderClipPath(eqProps),
                     stops |-> GradientPropsBorder(eqColors, eqUniform),
                     center |-> Center(eqProps),
                     matrix |-> GradientMatrix(0, Center(eqProps))]

\* The parent renders both with new props.
EquivRender ==
    \E p \in EquivPropsSet, colors \in EquivColorLists, uniform \in BOOLEAN :
        /\ eqProps' = p
        /\ eqColors' = colors
        /\ eqUniform' = uniform
        /\ eqClosure' = DerivedValueClosure(eqClosure, p)
        /\ eqStatic' = SkiaRingBorderDraws(eqStatic, eqProps, p, colors, uniform,
                                           eqRotation)
        /\ eqAnimated' = AnimatedSkiaRingBorderDraws(eqAnimated, eqProps, p, colors,
                                                     uniform)
        /\ UNCHANGED eqRotation
        /\ EquivFrame

\* A frame: the shared value moves to r, the worklet of the derived value
\* runs again, and the static ring is rendered with rotation = r.
EquivRotationFrame ==
    \E r \in RotationValues :
        /\ eqRotation' = r
        /\ eqStatic' = [eqStatic EXCEPT !.matrix = GradientMatrix(r, Center(eqProps))]
        /\ eqAnimated' = [eqAnimated EXCEPT !.matrix = GradientMatrix(r, eqClosure)]
        /\ UNCHANGED <<eqProps, eqColors, eqUniform, eqClosure>>
        /\ EquivFrame

EquivIdle ==
    /\ eqProps = <<>>
    /\ eqColors = <<>>
    /\ eqUniform = FALSE
    /\ eqRotation = 0
    /\ eqClosure = <<>>
    /\ eqStatic = <<>>
    /\ eqAnimated = <<>>

EquivNext ==
    \/ EquivRender
    \/ EquivRotationFrame

(***************************************************************************)
(* SHAPE EDGE                                                              *)
(* Floats are in thousandths.  The sines and cosines of the angles that    *)
(* depend on the time and on atan are sampled over [-1, 1]: `phase`        *)
(* selects which sample each of them takes.                                *)
(***************************************************************************)
\* floor(sqrt(n)) by bisection
RECURSIVE SqrtBetween(_, _, _)
SqrtBetween(n, lo, hi) ==
    IF lo >= hi THEN lo
    ELSE LET mid == (lo + hi + 1) \div 2
         IN  IF mid * mid <= n THEN SqrtBetween(n, mid, hi)
             ELSE SqrtBetween(n, lo, mid - 1)

ISqrt(n) == IF n <= 0 THEN 0 ELSE SqrtBetween(n, 0, 46340)

\* sqrt of a float
Sqrt(x) == ISqrt(x * 1000)

\* length(v)
length(v) == ISqrt(v[1] * v[1] + v[2] * v[2])

\* pow(x, n) for a whole exponent n >= 1
RECURSIVE PowInt(_, _)
PowInt(x, n) == IF n <= 1 THEN x ELSE Mul(x, PowInt(x, n - 1))

\* pow(x, 0.25)
PowQuarter(x) == Sqrt(Sqrt(x))

\* mix(x, y, a) = x * (1 - a) + y * a
mix(x, y, a) == Mul(x, 1000 - a) + Mul(y, a)

\* rotate(v, a), given cos(a) and sin(a)
rotate(v, c, sn) == <<Mul(v[1], c) - Mul(v[2], sn), Mul(v[1], sn) + Mul(v[2], c)>>

TrigSamples == <<1000, 0, -1000, 500, -500>>

TrigSample(k) == TrigSamples[(k % Len(TrigSamples)) + 1]

Shapes == 0..4

UvGrid == {0, 100, 500, 900, 1000}

Contours == {-500, 200, 1000}

Phases == 0..4

EdgeInputSet ==
    [shape : Shapes, uv : UvGrid \X UvGrid, contour : Contours, phase : Phases]

\* The mask of shapes 0 and 3: 1 - pow(maskX, 0.25) * pow(maskY, 0.25)
MaskEdge(v) ==
    LET maskX == PowQuarter(smoothstep(0, 150, Min(v[1], 1000 - v[1])))
        maskY == PowQuarter(smoothstep(0, 150, Min(v[2], 1000 - v[2])))
    IN  clamp(1000 - Mul(maskX, maskY), 0, 1000)

\* Shape 0: full fill
Shape0Edge(uv) == MaskEdge(uv)

\* A slip: the circle without its clamp.
Shape1EdgeUnclamped(uv) ==
    PowInt(3 * length(<<Mul(uv[1] - 500, 670), Mul(uv[2] - 500, 670)>>), 18)

\* Shape 1: circle
Shape1Edge(uv) ==
    LET shapeUV == <<Mul(uv[1] - 500, 670), Mul(uv[2] - 500, 670)>>
    IN  PowInt(clamp(3 * length(shapeUV), 0, 1000), 18)

\* Shape 2: daisy
Shape2Edge(uv, phase) ==
    LET shapeUV == <<Mul(uv[1] - 500, 1680), Mul(uv[2] - 500, 1680)>>
        r == Mul(length(shapeUV) * 2, 1000 + Mul(50, TrigSample(phase)))
        f == IF TrigSample(phase + 1) < 0 THEN 0 - TrigSample(phase + 1)
             ELSE TrigSample(phase + 1)
        edge == smoothstep(f, f + 700, r)
    IN  Mul(edge, edge)

\* Shape 3: diamond; cos(0.25 * PI) = sin(0.25 * PI) = 0.707
Shape3Edge(uv) ==
    LET turned == rotate(<<uv[1] - 500, uv[2] - 500>>, 707, 707)
        shapeUV == <<Mul(turned[1], 1420) + 500, Mul(turned[2], 1420) + 500>>
    IN  MaskEdge(shapeUV)

\* dir1 and dir2 of the five metaballs: cos(angle), sin(angle),
\* cos(angle + 1.57), sin(angle + 1.0) for angle = -1.5 * i
BlobDirs ==
    << <<1000, 0, 1, 841>>, <<71, -997, 998, -479>>, <<-990, -141, 140, -909>>,
       <<-211, 978, -978, 351>>, <<960, 279, -279, 959>> >>

\* The loop of shape 4 from blob i on.
RECURSIVE BlobSum(_, _, _)
BlobSum(shapeUV, phase, i) ==
    IF i >= 5 THEN 0
    ELSE LET dir == BlobDirs[i + 1]
             sn == TrigSample(phase + i)
             cs == TrigSample(phase + 2 * i + 1)
             traj == <<Mul(400, Mul(dir[1], sn) + Mul(dir[3], cs)),
                       Mul(400, Mul(dir[2], sn) + Mul(dir[4], cs))>>
             d == length(<<shapeUV[1] + traj[1], shapeUV[2] + traj[2]>>)
         IN  PowInt(1000 - clamp(d, 0, 1000), 4) + BlobSum(shapeUV, phase, i + 1)

\* Shape 4: metaballs
Shape4Edge(uv, phase) ==
    LET shapeUV == <<Mul(uv[1] - 500, 1300), Mul(uv[2] - 500, 1300)>>
        edge == 1000 - smoothstep(650, 900, BlobSum(shapeUV, phase, 0))
    IN  PowInt(edge, 4)

\* The contour smoothing at the end of getShapeEdge.
ContourSmoothing(edge, contour) ==
    mix(smoothstep(850, 950, edge), edge, smoothstep(0, 400, contour))

\* getShapeEdge of liquidMetalShader
getShapeEdgeSimplex(in) ==
    ContourSmoothing(
        IF in.shape * 10 < 5 THEN Shape0Edge(in.uv)
        ELSE IF in.shape * 10 < 15 THEN Shape1Edge(in.uv)
        ELSE IF in.shape * 10 < 25 THEN Shape2Edge(in.uv, in.phase)
        ELSE IF in.shape * 10 < 35 THEN Shape3Edge(in.uv)
        ELSE Shape4Edge(in.uv, in.phase),
        in.contour)

\* getShapeEdge of sensorLiquidMetalShader
getShapeEdgeSensor(in) ==
    ContourSmoothing(
        IF in.shape * 10 < 5 THEN Shape0Edge(in.uv)
        ELSE IF in.shape * 10 < 15 THEN Shape1Edge(in.uv)
        ELSE IF in.shape * 10 < 25 THEN Shape2Edge(in.uv, in.phase)
        ELSE IF in.shape * 10 < 35 THEN Shape3Edge(in.uv)
        ELSE Shape4Edge(in.uv, in.phase),
        in.contour)

EdgeOf(variant, in) ==
    IF variant = "sensor" THEN getShapeEdgeSensor(in) ELSE getShapeEdgeSimplex(in)

\* The first pixel of the first frame under the default props (shape 1,
\* contour 0.3 rounded to the grid).
EdgeInit ==
    /\ edShader \in ShaderVariants
    /\ edInput = [shape |-> 1, uv |-> <<0, 0>>, contour |-> 200, phase |-> 0]
    /\ edEdge = EdgeOf(edShader, edInput)

\* main calls getShapeEdge for another pixel.
EdgeNextPixel ==
    \E uv \in UvGrid \X UvGrid :
        /\ edInput' = [edInput EXCEPT !.uv = uv]
        /\ edEdge' = EdgeOf(edShader, edInput')
        /\ UNCHANGED edShader
        /\ EdgeFrame

\* A new frame: the time has moved on.
EdgeNextFrame ==
    \E ph \in Phases :
        /\ edInput' = [edInput EXCEPT !.phase = ph]
        /\ edEdge' = EdgeOf(edShader, edInput')
        /\ UNCHANGED edShader
        /\ EdgeFrame

\* A render with other shape and contour props.
EdgeRender ==
    \E sh \in Shapes, co \in Contours :
        /\ edInput' = [edInput EXCEPT !.shape = sh, !.contour = co]
        /\ edEdge' = EdgeOf(edShader, edInput')
        /\ UNCHANGED edShader
        /\ EdgeFrame

EdgeIdle ==
    /\ edShader = "none"
    /\ edInput = <<>>
    /\ edEdge = 0

EdgeNext ==
    \/ EdgeNextPixel
    \/ EdgeNextFrame
    \/ EdgeRender

(***************************************************************************)
(* SHADER DIVISIONS                                                        *)
(* Every division written in the two shaders, with the divisor each one    *)
(* gets.  Floats are in thousandths, the tint channels in ten-thousandths  *)
(* (the guard 0.0001 is 1 there), the resolution in pixels.                *)
(***************************************************************************)
Repetitions == {1000, 1500, 20000}

Resolutions == {<<1, 1>>, <<300, 200>>}

Tints == {<<0, 0, 0>>, <<1, 5000, 10000>>, <<10000, 10000, 10000>>}

\* bump before the sensor term: (1 - pow(1.8 * dist, 1.2)) * pow(uv.y, 0.3)
PixelBumps == {-2000, -200, 500, 1000}

\* a / b of two floats; 0 stands for the undefined quotient by 0
FloatDiv(a, b) == IF b = 0 THEN 0 ELSE (a * 1000) \div b

\* A slip: the tint used as the divisor as it is.
TintDivisorUnguarded(tint) == tint

\* max(tint, 0.0001)
TintDivisor(tint) == Max(tint, 1)

thin_strip_1_ratio(cycleWidth, bump) ==
    Mul(FloatDiv(120, cycleWidth), 1000 - Mul(400, bump))

thin_strip_2_ratio(cycleWidth, bump) ==
    Mul(FloatDiv(70, cycleWidth), 1000 + Mul(400, bump))

wide_strip_ratio(cycleWidth, bump) ==
    1000 - thin_strip_1_ratio(cycleWidth, bump)
         - thin_strip_2_ratio(cycleWidth, bump)

\* Only the sensor shader adds the sensor's share to the bump.
DivBump(variant, u, bump) ==
    IF variant = "sensor" THEN bump + sensorBump(u) ELSE bump

\* The divisors of one pixel, in the order of the code: fragCoord /
\* iResolution, the degrees-to-radians 180, 0.12 / cycleWidth and
\* 0.07 / cycleWidth, iShift / 20, iSoftness / 15, (...) / w.z,
\* (1 - ch) / max(tint, 0.0001) for r, g and b, and the dither's 255.
Divisors(variant, u, bump) ==
    [iResolution |-> u.iResolution,
     degrees |-> 180,
     cycleWidth |-> u.iRepetition,
     shift |-> 20,
     softness |-> 15,
     widthsZ |-> wide_strip_ratio(u.iRepetition, DivBump(variant, u, bump)),
     tint |-> <<TintDivisor(u.iColorTint[1]), TintDivisor(u.iColorTint[2]),
                TintDivisor(u.iColorTint[3])>>,
     dither |-> 255]

\* The first pixel under the components' defaults: 300 x 300, repetition 3,
\* colorTint [1, 1, 1, 0], sensorInfluence 0.7.
DivInit ==
    /\ dvShader \in ShaderVariants
    /\ dvUniforms = [iResolution |-> <<300, 300>>, iRepetition |-> 3000,
                     iColorTint |-> <<10000, 10000, 10000>>, iSensorY |-> 0,
                     iSensorInfluence |-> IF dvShader = "sensor" THEN 700 ELSE 0]
    /\ dvBump = 500
    /\ dvDivisors = Divisors(dvShader, dvUniforms, dvBump)

\* A render with another size.
DivResize ==
    \E res \in Resolutions :
        /\ dvUniforms' = [dvUniforms EXCEPT !.iResolution = res]
        /\ dvDivisors' = Divisors(dvShader, dvUniforms', dvBump)
        /\ UNCHANGED <<dvShader, dvBump>>
        /\ DivFrame

\* A render with another repetition and tint.
DivRender ==
    \E rep \in Repetitions, tint \in Tints :
        /\ dvUniforms' = [dvUniforms EXCEPT !.iRepetition = rep,
                                            !.iColorTint = tint]
        /\ dvDivisors' = Divisors(dvShader, dvUniforms', dvBump)
        /\ UNCHANGED <<dvShader, dvBump>>
        /\ DivFrame

\* The sensor hands over a new pitch (sensor shader only).
DivSensorReads ==
    \E y \in SensorReadings, inf \in SensorInfluences :
        /\ dvShader = "sensor"
        /\ dvUniforms' = [dvUniforms EXCEPT !.iSensorY = y,
                                            !.iSensorInfluence = inf]
        /\ dvDivisors' = Divisors(dvShader, dvUniforms', dvBump)
        /\ UNCHANGED <<dvShader, dvBump>>
        /\ DivFrame

\* main runs for another pixel.
DivShadePixel ==
    \E bump \in PixelBumps :
        /\ dvBump' = bump
        /\ dvDivisors' = Divisors(dvShader, dvUniforms, bump)
        /\ UNCHANGED <<dvShader, dvUniforms>>
        /\ DivFrame

DivIdle ==
    /\ dvShader = "none"
    /\ dvUniforms = <<>>
    /\ dvBump = 0
    /\ dvDivisors = <<>>

DivNext ==
    \/ DivResize
    \/ DivRender
    \/ DivSensorReads
    \/ DivShadePixel

(***************************************************************************)
(* PORTAL CARD FACES                                                       *)
(* The animated styles of the two faces of the expanded card.              *)
(* flipProgress is in hundredths; a spring may overshoot 0 and 1.          *)
(***************************************************************************)
FlipValues == -30..130

\* interpolate(flipProgress.value, [0, 1], [0, 180]); the default
\* extrapolation extends the line.
FrontRotateY(fp) == (fp * 180) \div 100

\* interpolate(flipProgress.value, [0, 1], [-180, 0])
BackRotateY(fp) == ((fp * 180) \div 100) - 180

\* pointerEvents: flipProgress.value > 0.5 ? "none" : "auto"
FrontPointerEvents(fp) == IF fp > 50 THEN "none" ELSE "auto"

\* A slip: the back face tests >= 0.5 where the front tests > 0.5.
BackPointerEventsAtHalf(fp) == IF fp < 50 THEN "none" ELSE "auto"

\* pointerEvents: flipProgress.value <= 0.5 ? "none" : "auto"
BackPointerEvents(fp) == IF fp <= 50 THEN "none" ELSE "auto"

frontAnimatedStyle(fp) ==
    [rotateY |-> FrontRotateY(fp), backfaceVisibility |-> "hidden",
     pointerEvents |-> FrontPointerEvents(fp)]

backAnimatedStyle(fp) ==
    [rotateY |-> BackRotateY(fp), backfaceVisibility |-> "hidden",
     pointerEvents |-> BackPointerEvents(fp)]

\* The expanded card with the front face showing.
FacesInit ==
    /\ fcFlip = 0
    /\ fcFront = frontAnimatedStyle(0)
    /\ fcBack = backAnimatedStyle(0)

\* A frame: flipProgress holds another value and both styles run again.
FacesFrameRuns ==
    \E fp \in FlipValues :
        /\ fcFlip' = fp
        /\ fcFront' = frontAnimatedStyle(fp)
        /\ fcBack' = backAnimatedStyle(fp)
        /\ FacesFrame

FacesIdle ==
    /\ fcFlip = 0
    /\ fcFront = <<>>
    /\ fcBack = <<>>

FacesNext == FacesFrameRuns

(***************************************************************************)
(* INTERPOLATED METAL COLOURS                                              *)
(* interpolateMetalColors computes in IEEE 754 doubles.  A double is kept  *)
(* here as a sign and a magnitude hi * 2^30 + lo in units of 2^-59; every  *)
(* preset channel, every difference of two of them and every quarter of    *)
(* such a difference is a whole number of these units.  t is in quarters.  *)
(***************************************************************************)
LimbBase == 2^30

\* The double nearest to h / 100, the way the literals of METAL_PRESETS
\* are read: <<hi, lo>>.
DoubleTable ==
    0 :> <<0, 0>> @@ 5 :> <<26843545, 644245096>> @@
    8 :> <<42949672, 1030792152>> @@ 10 :> <<53687091, 214748368>> @@
    12 :> <<64424509, 472446400>> @@ 15 :> <<80530636, 858993456>> @@
    17 :> <<91268055, 42949680>> @@ 20 :> <<107374182, 429496736>> @@
    25 :> <<134217728, 0>> @@ 28 :> <<150323855, 386547072>> @@
    30 :> <<161061273, 644245088>> @@ 35 :> <<187904819, 214748352>> @@
    40 :> <<214748364, 858993472>> @@ 45 :> <<241591910, 429496736>> @@
    50 :> <<268435456, 0>> @@ 62 :> <<332859965, 472446400>> @@
    65 :> <<348966092, 858993472>> @@ 70 :> <<375809638, 429496704>> @@
    72 :> <<386547056, 687194752>> @@ 76 :> <<408021893, 128849024>> @@
    80 :> <<429496729, 644245120>> @@ 84 :> <<450971566, 85899328>> @@
    88 :> <<472446402, 601295424>> @@ 89 :> <<477815111, 730144448>> @@
    90 :> <<483183820, 858993472>> @@ 95 :> <<510027366, 429496704>> @@
    98 :> <<526133493, 816043776>> @@ 100 :> <<536870912, 0>>

DoubleOf(h) == [neg |-> FALSE, hi |-> DoubleTable[h][1], lo |-> DoubleTable[h][2]]

DoubleZero == [neg |-> FALSE, hi |-> 0, lo |-> 0]

MagLess(x, y) == x.hi < y.hi \/ (x.hi = y.hi /\ x.lo < y.lo)

DoubleLeq(x, y) ==
    IF x.neg # y.neg THEN x.neg
    ELSE IF x.neg THEN ~MagLess(x, y) ELSE ~MagLess(y, x)

Negate(x) == IF x.hi = 0 /\ x.lo = 0 THEN x ELSE [x EXCEPT !.neg = ~x.neg]

\* x + y without rounding
ExactAdd(x, y) ==
    IF x.neg = y.neg
    THEN [neg |-> x.neg, hi |-> x.hi + y.hi + (x.lo + y.lo) \div LimbBase,
          lo |-> (x.lo + y.lo) % LimbBase]
    ELSE LET big == IF MagLess(x, y) THEN y ELSE x
             small == IF MagLess(x, y) THEN x ELSE y
             borrow == IF big.lo < small.lo THEN 1 ELSE 0
             hi == big.hi - small.hi - borrow
             lo == big.lo - small.lo + borrow * LimbBase
         IN  [neg |-> big.neg /\ (hi # 0 \/ lo # 0), hi |-> hi, lo |-> lo]

\* floor(log2(n)) for n >= 1
RECURSIVE Log2(_)
Log2(n) == IF n <= 1 THEN 0 ELSE 1 + Log2(n \div 2)

\* The result of an operation is the double nearest to the exact value,
\* ties to the even mantissa: 53 significant bits are kept.
RoundToDouble(x) ==
    IF x.hi < 2^23 THEN x
    ELSE LET unit == 2^(Log2(x.hi) - 22)
             rem == x.lo % unit
             base == x.lo - rem
             up == \/ 2 * rem > unit
                   \/ (2 * rem = unit /\ (base \div unit) % 2 = 1)
             lo == IF up THEN base + unit ELSE base
         IN  [neg |-> x.neg, hi |-> x.hi + lo \div LimbBase, lo |-> lo % LimbBase]

\* x * (k / 4) without rounding, for x a whole number of 2^-57
TimesQuarters(x, k) ==
    LET quarter == [neg |-> x.neg, hi |-> x.hi \div 4,
                    lo |-> (x.hi % 4) * (LimbBase \div 4) + x.lo \div 4]
        twice == ExactAdd(quarter, quarter)
    IN  CASE k = 0 -> DoubleZero
          [] k = 1 -> quarter
          [] k = 2 -> twice
          [] k = 3 -> ExactAdd(twice, quarter)
          [] OTHER -> x

\* const lerp = (a, b, t) => a + (b - a) * t
lerp(a, b, t) ==
    RoundToDouble(ExactAdd(a,
        RoundToDouble(TimesQuarters(RoundToDouble(ExactAdd(b, Negate(a))), t))))

InterpolationPresets == PresetNames

Quarters == 0..4

interpolateMetalColors(from, to, t) ==
    LET fromColors == METAL_PRESETS[from]
        toColors == METAL_PRESETS[to]
    IN  [highlight |->
             [i \in 1..3 |-> lerp(DoubleOf(fromColors.highlight[i]),
                                  DoubleOf(toColors.highlight[i]), t)],
         shadow |->
             [i \in 1..3 |-> lerp(DoubleOf(fromColors.shadow[i]),
                                  DoubleOf(toColors.shadow[i]), t)]]

\* The example of the documentation: a blend of silver and gold at 0.5.
InterpInit ==
    /\ imFrom = "silver"
    /\ imTo = "gold"
    /\ imT = 2
    /\ imColors = interpolateMetalColors(imFrom, imTo, imT)

\* A call with other presets.
InterpolatePresets ==
    \E from \in InterpolationPresets, to \in InterpolationPresets :
        /\ imFrom' = from
        /\ imTo' = to
        /\ imColors' = interpolateMetalColors(from, to, imT)
        /\ UNCHANGED imT
        /\ InterpFrame

\* A call with another t.
InterpolateAt ==
    \E t \in Quarters :
        /\ imT' = t
        /\ imColors' = interpolateMetalColors(imFrom, imTo, t)
        /\ UNCHANGED <<imFrom, imTo>>
        /\ InterpFrame

InterpIdle ==
    /\ imFrom = "none"
    /\ imTo = "none"
    /\ imT = 0
    /\ imColors = <<>>

InterpNext ==
    \/ InterpolatePresets
    \/ InterpolateAt

(***************************************************************************)
(* PORTAL CARD: THE TRIGGER CARD                                           *)
(***************************************************************************)
\* triggerAnimatedStyle: interpolate(animationProgress.value,
\* [0, 0.005, 0.1, 1], [1, 0, 0, 0], "clamp"), in hundredths.  A progress
\* that is not 0 is at least one sixth here, beyond 0.005.
TriggerOpacity(ap) == IF ap.value <= 0 THEN 100 ELSE 0

\* Nothing is left to happen by itself: no spring runs, no close timer and
\* no measureInWindow callback is pending.
PortalAtRest ==
    /\ ~animationProgress.running
    /\ ~flipProgress.running
    /\ pcTimers = <<>>
    /\ pcMeasures = 0

(***************************************************************************)
(* KINETIC TEXT: THE CHARACTERS                                            *)
(* progress and staggerDelay are in hundredths, the local progress in      *)
(* thousandths, offsets and angles in thousandths of a pixel or degree.    *)
(***************************************************************************)
CharTextLengths == {1, 3, 5}

\* documented range 0-1; 0.01 is the default, 0.08 the recommended value
StaggerDelays == {0, 1, 8, 50, 100}

CharsPropsSet ==
    [textLength : CharTextLengths, staggerDelay : StaggerDelays, laggy : BOOLEAN]

\* The values the spring passes through and the one it settles at.
ProgressValues(len) == {0, 20, 40, 70, 100, TotalTarget(len)}

\* interpolate(progress.value, [start, end], [0, 1], Extrapolation.CLAMP)
\* with start = index * staggerDelay and end = start + 0.4
LocalProgress(prog, index, staggerDelay) ==
    clamp(((prog - index * staggerDelay) * 1000) \div 40, 0, 1000)

\* steps ? Math.floor(localProgress * steps) / steps : localProgress, with
\* steps = laggy ? 8 : undefined
QuantizedProgress(localProgress, laggy) ==
    IF laggy THEN ((localProgress * 8) \div 1000) * 125 ELSE localProgress

\* interpolate(q, [0, 0.5, 1], [50, -15, 0])
WarpTranslateY(q) == IF q <= 500 THEN 50000 - 130 * q ELSE 30 * (q - 500) - 15000

\* interpolate(q, [0, 0.5, 1], [90, 0, 0])
WarpRotateX(q) == IF q <= 500 THEN 90000 - 180 * q ELSE 0

\* interpolate(q, [0, 1], [-20, 0])
WarpRotateZ(q) == 20 * q - 20000

warpAnimatedStyle(prog, index, p) ==
    LET localProgress == LocalProgress(prog, index, p.staggerDelay)
        quantizedProgress == QuantizedProgress(localProgress, p.laggy)
    IN  [localProgress |-> localProgress,
         opacity |-> localProgress,
         translateY |-> WarpTranslateY(quantizedProgress),
         rotateX |-> WarpRotateX(quantizedProgress),
         rotateZ |-> WarpRotateZ(quantizedProgress)]

\* chars.map((char, index) => <AnimatedChar index={index} ... />)
CharStyles(prog, p) ==
    [k \in 1..p.textLength |-> warpAnimatedStyle(prog, k - 1, p)]

\* The mount under the defaults staggerDelay = 0.01 and laggy = false:
\* progress is 0.
CharsInit ==
    /\ chProps \in {p \in CharsPropsSet : p.staggerDelay = 1 /\ ~p.laggy}
    /\ chProgress = 0
    /\ chStyles = CharStyles(0, chProps)

\* A render with another staggerDelay or laggy for the same text.
CharsRender ==
    \E p \in CharsPropsSet :
        /\ p.textLength = chProps.textLength
        /\ chProps' = p
        /\ chStyles' = CharStyles(chProgress, p)
        /\ UNCHANGED chProgress
        /\ CharsFrame

\* A frame of the spring started by start(): progress moves, and in the
\* end rests at totalTarget.
CharsSpringFrame ==
    \E prog \in ProgressValues(chProps.textLength) :
        /\ chProgress' = prog
        /\ chStyles' = CharStyles(prog, chProps)
        /\ UNCHANGED chProps
        /\ CharsFrame

CharsIdle ==
    /\ chProps = <<>>
    /\ chProgress = 0
    /\ chStyles = <<>>

CharsNext ==
    \/ CharsRender
    \/ CharsSpringFrame

(***************************************************************************)
(* GLOWING BORDER CARD                                                     *)
(* The press handler and setPlayIcon run on the React Native thread, the   *)
(* shared values and the animated reaction on the UI thread.  A write to a *)
(* shared value from the React Native thread reaches the UI thread later;  *)
(* scheduleOnRN queues a call for the React Native thread.  Both queues    *)
(* keep their order.                                                       *)
(***************************************************************************)
MaxPresses == 3

\* A slip: the icons the wrong way round.
IconForSwapped(value) == IF value THEN "play-arrow" ELSE "pause"

\* scheduleOnRN(setPlayIcon, value ? "pause" : "play-arrow")
IconFor(value) == IF value THEN "pause" ELSE "play-arrow"

\* withRepeat(withTiming(360, linear), -1, false) when the value is true,
\* withTiming(0, { duration: duration / 2 }) when it is false
RotationFor(value) == IF value THEN "repeatTo360" ELSE "timingTo0"

\* The values startAnimation.value may give the press handler: the one the
\* UI thread holds, or the one it wrote last and the UI thread has yet to
\* take over.
ValuesSeen ==
    {startAnimation}
        \cup (IF gbWrites = <<>> THEN {} ELSE {gbWrites[Len(gbWrites)]})

\* useSharedValue(0), useSharedValue(false), useState("play-arrow"); the
\* reaction is registered and has still to run for the first time.
GlowCardInit ==
    /\ startAnimation = FALSE
    /\ gbRotateX = "rest0"
    /\ playIcon = "play-arrow"
    /\ gbWrites = <<>>
    /\ gbReactionDue = TRUE
    /\ gbScheduled = <<>>
    /\ gbPresses = 0

\* onPress={() => (startAnimation.value = !startAnimation.value)}
GlowCardPress ==
    \E seen \in ValuesSeen :
        /\ gbPresses < MaxPresses
        /\ gbPresses' = gbPresses + 1
        /\ gbWrites' = Append(gbWrites, ~seen)
        /\ UNCHANGED <<startAnimation, gbRotateX, playIcon, gbReactionDue,
                       gbScheduled>>
        /\ GlowCardFrame

\* The UI thread takes over a write: the shared value changes and the
\* reaction that reads it is due.
GlowCardWriteArrives ==
    /\ gbWrites # <<>>
    /\ startAnimation' = Head(gbWrites)
    /\ gbWrites' = Tail(gbWrites)
    /\ gbReactionDue' = TRUE
    /\ UNCHANGED <<gbRotateX, playIcon, gbScheduled, gbPresses>>
    /\ GlowCardFrame

\* useAnimatedReaction(() => startAnimation.value, (value) => { ... })
GlowCardReaction ==
    /\ gbReactionDue
    /\ gbReactionDue' = FALSE
    /\ gbRotateX' = RotationFor(startAnimation)
    /\ gbScheduled' = Append(gbScheduled, IconFor(startAnimation))
    /\ UNCHANGED <<startAnimation, playIcon, gbWrites, gbPresses>>
    /\ GlowCardFrame

\* The React Native thread runs the next scheduled setPlayIcon.
GlowCardSetPlayIcon ==
    /\ gbScheduled # <<>>
    /\ playIcon' = Head(gbScheduled)
    /\ gbScheduled' = Tail(gbScheduled)
    /\ UNCHANGED <<startAnimation, gbRotateX, gbWrites, gbReactionDue, gbPresses>>
    /\ GlowCardFrame

GlowCardIdle ==
    /\ startAnimation = FALSE
    /\ gbRotateX = "none"
    /\ playIcon = "none"
    /\ gbWrites = <<>>
    /\ gbReactionDue = FALSE
    /\ gbScheduled = <<>>
    /\ gbPresses = 0

GlowCardNext ==
    \/ GlowCardPress
    \/ GlowCardWriteArrives
    \/ GlowCardReaction
    \/ GlowCardSetPlayIcon

(***************************************************************************)
(* SPECIFICATIONS                                                          *)
(***************************************************************************)
StopsNext ==
    \/ RenderGlowGradient
    \/ RenderBorderGradient
    \/ RenderAnimatedBorderGradient

InitStops ==
    StopsInit /\ RingIdle /\ MetalIdle /\ MathIdle /\ ShaderIdle /\ RotIdle /\ PulseIdle
    /\ CardStopsIdle
    /\ PortalIdle
    /\ KineticIdle
    /\ SensorIdle
    /\ EquivIdle
    /\ EdgeIdle
    /\ DivIdle
    /\ FacesIdle
    /\ InterpIdle
    /\ CharsIdle
    /\ GlowCardIdle

SpecStops == InitStops /\ [][StopsNext]_vars

InitRing ==
    RingInit /\ StopsIdle /\ MetalIdle /\ MathIdle /\ ShaderIdle /\ RotIdle /\ PulseIdle
    /\ CardStopsIdle
    /\ PortalIdle
    /\ KineticIdle
    /\ SensorIdle
    /\ EquivIdle
    /\ EdgeIdle
    /\ DivIdle
    /\ FacesIdle
    /\ InterpIdle
    /\ CharsIdle
    /\ GlowCardIdle

SpecRing == InitRing /\ [][RingNext]_vars

InitMetal ==
    MetalInit /\ StopsIdle /\ RingIdle /\ MathIdle /\ ShaderIdle /\ RotIdle /\ PulseIdle
    /\ CardStopsIdle
    /\ PortalIdle
    /\ KineticIdle
    /\ SensorIdle
    /\ EquivIdle
    /\ EdgeIdle
    /\ DivIdle
    /\ FacesIdle
    /\ InterpIdle
    /\ CharsIdle
    /\ GlowCardIdle

SpecMetal == InitMetal /\ [][MetalNext]_vars

InitMath ==
    MathInit /\ StopsIdle /\ RingIdle /\ MetalIdle /\ ShaderIdle /\ RotIdle /\ PulseIdle
    /\ CardStopsIdle
    /\ PortalIdle
    /\ KineticIdle
    /\ SensorIdle
    /\ EquivIdle
    /\ EdgeIdle
    /\ DivIdle
    /\ FacesIdle
    /\ InterpIdle
    /\ CharsIdle
    /\ GlowCardIdle

SpecMath == InitMath /\ [][MathNext]_vars

InitShader ==
    ShaderInit /\ StopsIdle /\ RingIdle /\ MetalIdle /\ MathIdle /\ RotIdle /\ PulseIdle
    /\ CardStopsIdle
    /\ PortalIdle
    /\ KineticIdle
    /\ SensorIdle
    /\ EquivIdle
    /\ EdgeIdle
    /\ DivIdle
    /\ FacesIdle
    /\ InterpIdle
    /\ CharsIdle
    /\ GlowCardIdle

SpecShader == InitShader /\ [][ShaderNext]_vars

InitRot ==
    RotInit /\ StopsIdle /\ RingIdle /\ MetalIdle /\ MathIdle /\ ShaderIdle /\ PulseIdle
    /\ CardStopsIdle
    /\ PortalIdle
    /\ KineticIdle
    /\ SensorIdle
    /\ EquivIdle
    /\ EdgeIdle
    /\ DivIdle
    /\ FacesIdle
    /\ InterpIdle
    /\ CharsIdle
    /\ GlowCardIdle

SpecRot == InitRot /\ [][RotNext]_vars

InitPulse ==
    PulseInit /\ StopsIdle /\ RingIdle /\ MetalIdle /\ MathIdle /\ ShaderIdle /\ RotIdle
    /\ CardStopsIdle
    /\ PortalIdle
    /\ KineticIdle
    /\ SensorIdle
    /\ EquivIdle
    /\ EdgeIdle
    /\ DivIdle
    /\ FacesIdle
    /\ InterpIdle
    /\ CharsIdle
    /\ GlowCardIdle

SpecPulse == InitPulse /\ [][PulseNext]_vars

InitCardStops ==
    CardStopsInit /\ StopsIdle /\ RingIdle /\ MetalIdle /\ MathIdle /\ ShaderIdle
    /\ RotIdle /\ PulseIdle
    /\ PortalIdle
    /\ KineticIdle
    /\ SensorIdle
    /\ EquivIdle
    /\ EdgeIdle
    /\ DivIdle
    /\ FacesIdle
    /\ InterpIdle
    /\ CharsIdle
    /\ GlowCardIdle

SpecCardStops == InitCardStops /\ [][CardStopsNext]_vars

InitPortal ==
    PortalInit /\ StopsIdle /\ RingIdle /\ MetalIdle /\ MathIdle /\ ShaderIdle
    /\ RotIdle /\ PulseIdle /\ CardStopsIdle
    /\ KineticIdle
    /\ SensorIdle
    /\ EquivIdle
    /\ EdgeIdle
    /\ DivIdle
    /\ FacesIdle
    /\ InterpIdle
    /\ CharsIdle
    /\ GlowCardIdle

SpecPortal == InitPortal /\ [][PortalNext]_vars

InitKinetic ==
    KineticInit /\ StopsIdle /\ RingIdle /\ MetalIdle /\ MathIdle /\ ShaderIdle
    /\ RotIdle /\ PulseIdle /\ CardStopsIdle /\ PortalIdle
    /\ SensorIdle
    /\ EquivIdle
    /\ EdgeIdle
    /\ DivIdle
    /\ FacesIdle
    /\ InterpIdle
    /\ CharsIdle
    /\ GlowCardIdle

SpecKinetic == InitKinetic /\ [][KineticNext]_vars

InitSensor ==
    SensorInit /\ StopsIdle /\ RingIdle /\ MetalIdle /\ MathIdle /\ ShaderIdle
    /\ RotIdle /\ PulseIdle /\ CardStopsIdle /\ PortalIdle /\ KineticIdle
    /\ EquivIdle
    /\ EdgeIdle
    /\ DivIdle
    /\ FacesIdle
    /\ InterpIdle
    /\ CharsIdle
    /\ GlowCardIdle

SpecSensor == InitSensor /\ [][SensorNext]_vars

InitEquiv ==
    EquivInit /\ StopsIdle /\ RingIdle /\ MetalIdle /\ MathIdle /\ ShaderIdle
    /\ RotIdle /\ PulseIdle /\ CardStopsIdle /\ PortalIdle /\ KineticIdle
    /\ SensorIdle
    /\ EdgeIdle
    /\ DivIdle
    /\ FacesIdle
    /\ InterpIdle
    /\ CharsIdle
    /\ GlowCardIdle

SpecEquiv == InitEquiv /\ [][EquivNext]_vars

InitEdge ==
    EdgeInit /\ StopsIdle /\ RingIdle /\ MetalIdle /\ MathIdle /\ ShaderIdle
    /\ RotIdle /\ PulseIdle /\ CardStopsIdle /\ PortalIdle /\ KineticIdle
    /\ SensorIdle /\ EquivIdle
    /\ DivIdle
    /\ FacesIdle
    /\ InterpIdle
    /\ CharsIdle
    /\ GlowCardIdle

SpecEdge == InitEdge /\ [][EdgeNext]_vars

InitDiv ==
    DivInit /\ StopsIdle /\ RingIdle /\ MetalIdle /\ MathIdle /\ ShaderIdle
     /\ RotIdle /\ PulseIdle /\ CardStopsIdle /\ PortalIdle /\ KineticIdle
     /\ SensorIdle /\ EquivIdle /\ EdgeIdle
    /\ FacesIdle
    /\ InterpIdle
    /\ CharsIdle
    /\ GlowCardIdle

SpecDiv == InitDiv /\ [][DivNext]_vars

InitFaces ==
    FacesInit /\ StopsIdle /\ RingIdle /\ MetalIdle /\ MathIdle
     /\ ShaderIdle /\ RotIdle /\ PulseIdle /\ CardStopsIdle /\ PortalIdle
     /\ KineticIdle /\ SensorIdle /\ EquivIdle /\ EdgeIdle /\ DivIdle
    /\ InterpIdle
    /\ CharsIdle
    /\ GlowCardIdle

SpecFaces == InitFaces /\ [][FacesNext]_vars

InitInterp ==
    InterpInit /\ StopsIdle /\ RingIdle /\ MetalIdle /\ MathIdle
     /\ ShaderIdle /\ RotIdle /\ PulseIdle /\ CardStopsIdle /\ PortalIdle
     /\ KineticIdle /\ SensorIdle /\ EquivIdle /\ EdgeIdle /\ DivIdle
     /\ FacesIdle
    /\ CharsIdle
    /\ GlowCardIdle

SpecInterp == InitInterp /\ [][InterpNext]_vars

InitChars ==
    CharsInit /\ StopsIdle /\ RingIdle /\ MetalIdle /\ MathIdle
     /\ ShaderIdle /\ RotIdle /\ PulseIdle /\ CardStopsIdle /\ PortalIdle
     /\ KineticIdle /\ SensorIdle /\ EquivIdle /\ EdgeIdle /\ DivIdle
     /\ FacesIdle /\ InterpIdle
    /\ GlowCardIdle

SpecChars == InitChars /\ [][CharsNext]_vars

InitGlowCard ==
    GlowCardInit /\ StopsIdle /\ RingIdle /\ MetalIdle /\ MathIdle
     /\ ShaderIdle /\ RotIdle /\ PulseIdle /\ CardStopsIdle /\ PortalIdle
     /\ KineticIdle /\ SensorIdle /\ EquivIdle /\ EdgeIdle /\ DivIdle
     /\ FacesIdle /\ InterpIdle /\ CharsIdle

SpecGlowCard == InitGlowCard /\ [][GlowCardNext]_vars

(***************************************************************************)
(* CLAIMS                                                                  *)
(***************************************************************************)
\* C1: with uniformColors, a non-empty list of N colours yields 2N colours
\* and 2N positions; entries 2i and 2i+1 (0-based) are both colour i, at
\* positions i/N and (i+1)/N; [R,G,B] gives [0,1/3,1/3,2/3,2/3,1] and
\* [R,R,G,G,B,B]; in the border copy and in the glow copy.
C1_UniformStopsDoubled ==
    (gpUniform /\ Len(gpColors) > 0) =>
        LET n == Len(gpColors) IN
        /\ Len(gradientProps.colors) = 2 * n
        /\ Len(gradientProps.positions) = 2 * n
        /\ \A i \in 0..(n - 1) :
              /\ gradientProps.colors[2 * i + 1] = gpColors[i + 1]
              /\ gradientProps.colors[2 * i + 2] = gpColors[i + 1]
              /\ gradientProps.positions[2 * i + 1][1] * n
                    = i * gradientProps.positions[2 * i + 1][2]
              /\ gradientProps.positions[2 * i + 2][1] * n
                    = (i + 1) * gradientProps.positions[2 * i + 2][2]
        /\ gpColors = <<"#F00", "#0F0", "#00F">> =>
              /\ gradientProps.positions
                    = << <<0, 1>>, <<1, 3>>, <<1, 3>>, <<2, 3>>, <<2, 3>>, <<1, 1>> >>
              /\ gradientProps.colors
                    = <<"#F00", "#F00", "#0F0", "#0F0", "#00F", "#00F">>

C1_Witness ==
    /\ gpComp = "SkiaRingGlow"
    /\ gpUniform
    /\ gpColors = <<"#F00", "#0F0", "#00F">>
    /\ Len(gradientProps.positions) = 6

\* The blur-padding offset of a ring component: only the glow has one.
OffsetOf(c) == IF c = "SkiaRingGlow" THEN ringProps[c].blurRadius * 2 ELSE 0

\* C2: each ring builder forms the ring as the outer rounded rectangle
\* (0,0,width,height, radius borderRadius) minus the inner one at
\* (strokeWidth, strokeWidth), of size (width - 2*strokeWidth,
\* height - 2*strokeWidth) and radius max(0, borderRadius - strokeWidth),
\* the glow shifted by its blur padding; 300x200, radius 20, stroke 15
\* gives the inner rectangle (15,15,270,170) with radius 5.
C2_RingIsOuterMinusInset ==
    \A c \in DOMAIN ringProps :
        LET p == ringProps[c]
            path == clipPath[c]
            off == OffsetOf(c)
            r == IF p.borderRadius - p.strokeWidth > 0
                 THEN p.borderRadius - p.strokeWidth ELSE 0
        IN  /\ path.op = "Difference"
            /\ path.outer = [rect |-> [x |-> off, y |-> off,
                                       w |-> p.width, h |-> p.height],
                             rx |-> p.borderRadius, ry |-> p.borderRadius]
            /\ path.inner = [rect |-> [x |-> off + p.strokeWidth,
                                       y |-> off + p.strokeWidth,
                                       w |-> p.width - 2 * p.strokeWidth,
                                       h |-> p.height - 2 * p.strokeWidth],
                             rx |-> r, ry |-> r]
            /\ (off = 0 /\ p.width = 300 /\ p.height = 200
                /\ p.borderRadius = 20 /\ p.strokeWidth = 15) =>
                  path.inner = [rect |-> [x |-> 15, y |-> 15, w |-> 270, h |-> 170],
                                rx |-> 5, ry |-> 5]

C2_Witness ==
    /\ ringHost = "SkiaRingBorder"
    /\ ringProps["SkiaRingBorder"]
          = [width |-> 300, height |-> 200, strokeWidth |-> 15,
             borderRadius |-> 20, blurRadius |-> 0]
    /\ clipPath["SkiaRingBorder"].inner.rect.w = 270

\* C3: in every ring built by SkiaRingBorder, AnimatedSkiaRingBorder and
\* SkiaRingGlow the inner rectangle's width and height (the outer
\* dimensions minus 2*strokeWidth) are non-negative.
C3_InsetNonNegative ==
    \A c \in DOMAIN clipPath :
        /\ clipPath[c].inner.rect.w >= 0
        /\ clipPath[c].inner.rect.h >= 0

\* C4: for each of the nine preset names getMetalColors returns exactly
\* that name's table entry, whatever custom colours are passed with it;
\* 'gold' gives highlight [1.0,0.84,0.0] and shadow [0.40,0.25,0.0].
C4_PresetLookup ==
    metalProps.metal # "custom" =>
        /\ metalProps.metal \in
              {"silver", "gold", "copper", "roseGold", "bronze", "platinum",
               "chrome", "titanium", "brass"}
        /\ metalColors = METAL_PRESETS[metalProps.metal]
        /\ metalProps.metal = "gold" =>
              metalColors = [highlight |-> <<100, 84, 0>>, shadow |-> <<40, 25, 0>>]

C4_Witness ==
    /\ metalProps.metal = "gold"
    /\ metalProps.customHighlight = <<90, 50, 80>>
    /\ metalProps.customShadow = <<30, 10, 20>>
    /\ metalColors.highlight = <<100, 84, 0>>

\* C5: getMetalColors('custom', h, s) falls back to the silver preset and
\* warns whenever h or s is missing, and never returns a missing colour;
\* only when both are supplied does it return {highlight: h, shadow: s}.
C5_CustomFallback ==
    metalProps.metal = "custom" =>
        /\ metalColors.highlight # Undefined
        /\ metalColors.shadow # Undefined
        /\ IF metalProps.customHighlight = Undefined
              \/ metalProps.customShadow = Undefined
           THEN /\ metalColors = [highlight |-> <<98, 98, 100>>,
                                  shadow |-> <<10, 10, 10>>]
                /\ metalWarned
           ELSE /\ metalColors = [highlight |-> metalProps.customHighlight,
                                  shadow |-> metalProps.customShadow]
                /\ ~metalWarned

C5_Witness ==
    /\ metalProps.metal = "custom"
    /\ metalProps.customHighlight = <<90, 50, 80>>
    /\ metalProps.customShadow = Undefined
    /\ metalWarned

\* C6: in both shaders, with iShiftRed = 0 and iShiftBlue = 0 the three
\* stripe positions stripe_r, stripe_g and stripe_b all equal
\* fract(direction), for every pixel, sensor reading and sensor influence.
C6_NoFringingAtZeroShift ==
    (shVariant \in ShaderVariants
     /\ shUniforms.iShiftRed = 0 /\ shUniforms.iShiftBlue = 0) =>
        /\ stripe.r = stripe.g
        /\ stripe.b = stripe.g
        /\ stripe.g = fract(shPixel.direction)

C6_Witness ==
    /\ shVariant = "sensor"
    /\ shUniforms.iShiftRed = 0
    /\ shUniforms.iShiftBlue = 0
    /\ shUniforms.iSensorX # 0
    /\ shUniforms.iSensorInfluence # 0
    /\ RedTerm(shPixel) # 0
    /\ BlueTerm(shPixel) # 0
    /\ stripe.r = stripe.g

\* C7: when compilation fails (RuntimeEffect.Make returns null) the shader
\* component renders nothing on that render and on every later render: it
\* draws no canvas without a shader and never compiles again.
C7_FailedCompileRendersNothing ==
    scShader.effect = "null" =>
        /\ scOutput = "null"
        /\ scShader.compiles = 1

C7_Witness ==
    /\ scShader.effect = "null"
    /\ scRenders = MaxRenders
    /\ clock > 0
    /\ scOutput = "null"

\* C8: after the card mounts the rotation angle starts at 0, stays within
\* [0,360] and completes one revolution every `duration` milliseconds: the
\* angle reaches 360 exactly when `duration` ms of the revolution have run.
C8_RevolutionEveryDuration ==
    /\ rotRevs = 0 /\ rotAnim.elapsed = 0 => rotation = 0
    /\ rotation \in 0..360
    /\ rotation = 360 <=> rotAnim.elapsed = rotDuration

\* C9: the iTime of the uniform bundle never decreases from one frame to
\* the next, over clock ticks and re-renders that change props such as speed.
C9_TimeNonDecreasing == [][iTime' >= iTime]_vars

\* C10: while pulsate is enabled the pulse opacity never leaves the
\* interval from pulsateMinOpacity to pulsateMaxOpacity, for every history
\* of prop values.
C10_PulseWithinMinMax ==
    pulseProps.pulsate =>
        /\ pulseOpacity >= pulseProps.pulsateMinOpacity
        /\ pulseOpacity <= pulseProps.pulsateMaxOpacity

\* The share of the sweep that colour col holds in a list of doubled stops:
\* the summed length of its segments, counted in units of 1/M of the sweep,
\* where M is the number of segments.
RECURSIVE ShareUnits(_, _, _)
ShareUnits(gp, col, i) ==
    LET m == Len(gp.colors) \div 2
        units(p) == p[1] * (m \div p[2])
    IN  IF i > m THEN 0
        ELSE (IF gp.colors[2 * i - 1] = col
              THEN units(gp.positions[2 * i]) - units(gp.positions[2 * i - 1])
              ELSE 0)
             + ShareUnits(gp, col, i + 1)

\* The distinct colours of a list.
IsDistinct(colors) ==
    \A i, j \in 1..Len(colors) : colors[i] = colors[j] => i = j

\* C11: with uniformColors the card draws each of the N distinct colours
\* of its colors prop as hard-edged segments of the ring and of the glow
\* (both stops of a segment carry the colour), and every colour holds an
\* equal share, 1/N, of the sweep.
C11_EqualSharePerColour ==
    (csUniform /\ Len(csColors) > 0 /\ IsDistinct(csColors)) =>
        \A c \in DOMAIN csStops :
            LET gp == csStops[c]
                m == Len(gp.colors) \div 2
            IN  /\ \A i \in 1..m : gp.colors[2 * i - 1] = gp.colors[2 * i]
                /\ \A k \in 1..Len(csColors) :
                      ShareUnits(gp, csColors[k], 1) * Len(csColors) = m

\* C12: the portal is unmounted (isExpanded set to false) only after the
\* close animation has completed: at that moment animationProgress and
\* flipProgress have both settled on 0.
C12_UnmountOnlyAfterClose ==
    [][(isExpanded /\ ~isExpanded') =>
          /\ ~animationProgress.running /\ animationProgress.value = 0
          /\ ~flipProgress.running /\ flipProgress.value = 0]_vars

\* C13: each flip() switches the flip target to the face opposite to the
\* one targeted before the call, and reports onFlip(true) exactly when the
\* card is now heading to the front.
C13_FlipToggles ==
    pcFlipped # <<>> =>
        /\ pcFlipped.after = ProgressOne - pcFlipped.before
        /\ pcFlipped.onFlip = (pcFlipped.after = 0)

\* C14: after reset() has returned, progress is 0 and isAnimating is false,
\* and both stay so until the next start(), whatever animation was in
\* flight when reset() was called.
C14_ResetRestoresInitialState ==
    ktAfterReset => (progress = 0 /\ ~isAnimating)

C14_Witness ==
    /\ ktAfterReset
    /\ ktSpring.elapsed > 0
    /\ ktSpring.to > 0
    /\ progress = 0
    /\ ~isAnimating

\* C15: the isAnimating value read through the ref is true exactly when a
\* spring started by start() is in flight: it has neither settled nor been
\* cancelled by reset().
C15_IsAnimatingIffSpringInFlight ==
    ktProps # <<>> => (isAnimating <=> ktSpring.running)

C15_Witness ==
    /\ ~isAnimating
    /\ ~ktSpring.running
    /\ ktSpring.elapsed = SpringTextTicks
    /\ progress = TotalTarget(ktProps.textLength)

\* C16: with withSliderControl and an external progress value supplied the
\* characters are driven by the external progress only: a step that leaves
\* the external value alone (start(), reset(), the auto-start, the spring)
\* never changes what is displayed.
C16_SliderControlShowsExternalOnly ==
    [][(ktProps # <<>> /\ ktProps.withSliderControl
        /\ ktProps.progressValue # "undefined"
        /\ ktProps' = ktProps)
       => /\ DisplayedProgress = ktExternal
          /\ ktExternal' = ktExternal => DisplayedProgress' = DisplayedProgress]_vars

C16_Witness ==
    /\ ktProps.withSliderControl
    /\ ktProps.progressValue # "undefined"
    /\ ktExternal = 50
    /\ ktSpring.running
    /\ progress > 50
    /\ DisplayedProgress = 50

\* C17: with autoStart and no start() or reset() call from outside, the
\* animation is started by the component itself and exactly once
\* (onAnimationStart fires once), however many renders there are before it
\* has begun or while it runs.
C17_AutoStartExactlyOnce ==
    (ktProps # <<>> /\ ktProps.autoStart /\ ~ktRefCalled) =>
        /\ ktStarts <= 1
        /\ ktStarts = 0 => ktTimers > 0

C17_Witness ==
    /\ ktProps.autoStart
    /\ ~ktRefCalled
    /\ ktStarts = 1
    /\ ktTimers = 0
    /\ ktSpring.running
    /\ ktSpring.elapsed > 0

\* C18: with sensorInfluence = 0 two frames that differ only in the sensor
\* readings iSensorX and iSensorY give the same colour: the colour of the
\* frame equals the colour under any other pair of readings.
C18_NoSensorInfluenceAtZero ==
    (sfUniforms # <<>> /\ sfUniforms.iSensorInfluence = 0) =>
        \A x \in SensorReadings \cup {0}, y \in SensorReadings \cup {0} :
            sfColour = SensorColour([sfUniforms EXCEPT !.iSensorX = x,
                                                       !.iSensorY = y], sfPixel)

C18_Witness ==
    /\ sfUniforms.iSensorInfluence = 0
    /\ sfUniforms.iSensorX = 1000
    /\ sfUniforms.iSensorY = -500
    /\ sfColour.diagBLtoTR = sfPixel.diff
    /\ sfColour.totalAngle = sfUniforms.iAngle

\* C19: for the same width, height, colors, strokeWidth, borderRadius and
\* uniformColors, and a shared value holding r, AnimatedSkiaRingBorder
\* produces the same clip path, colour stops, gradient centre and rotation
\* matrix as SkiaRingBorder with rotation = r, in every frame and after
\* any change of props.
C19_AnimatedMatchesStatic ==
    /\ eqAnimated.clipPath = eqStatic.clipPath
    /\ eqAnimated.stops = eqStatic.stops
    /\ eqAnimated.center = eqStatic.center
    /\ eqAnimated.matrix = eqStatic.matrix

\* C20: for every uv in [0,1]x[0,1], every time, every contour value and
\* every shape in {0,1,2,3,4} the value returned by getShapeEdge lies in
\* [0,1], in both shader variants.
C20_EdgeWithinUnitInterval ==
    edShader \in ShaderVariants => (edEdge >= 0 /\ edEdge <= 1000)

C20_Witness ==
    /\ edShader = "sensor"
    /\ edInput.shape = 1
    /\ edInput.uv = <<1000, 1000>>
    /\ edInput.contour = 1000
    /\ 3 * length(<<Mul(500, 670), Mul(500, 670)>>) > 1000
    /\ edEdge = 1000

\* C21: for every uniform bundle that satisfies the data-model invariants
\* (repetition >= 1, positive resolution, colour channels in [0,1]) and every
\* pixel, no division of either shader has a zero divisor: the tint division
\* is guarded by max(tint, 0.0001), and widths.z (wide_strip_ratio) and the
\* cycle width are never zero.
C21_NoZeroDivisor ==
    dvShader \in ShaderVariants =>
        /\ dvDivisors.iResolution[1] # 0 /\ dvDivisors.iResolution[2] # 0
        /\ dvDivisors.degrees # 0 /\ dvDivisors.shift # 0
        /\ dvDivisors.softness # 0 /\ dvDivisors.dither # 0
        /\ dvDivisors.cycleWidth # 0
        /\ dvDivisors.widthsZ # 0
        /\ \A i \in 1..3 : dvDivisors.tint[i] # 0

C21_Witness ==
    /\ dvShader = "sensor"
    /\ dvUniforms.iColorTint = <<0, 0, 0>>
    /\ dvDivisors.tint = <<1, 1, 1>>
    /\ dvUniforms.iRepetition = 1000
    /\ dvBump = -2000
    /\ dvUniforms.iSensorY = -500 /\ dvUniforms.iSensorInfluence = 700
    /\ dvDivisors.widthsZ > 0

\* C22: in every rendered frame the gradient is rotated about its own
\* centre: the pivot of the rotation matrix equals the sweep gradient's
\* centre, also in frames rendered after the width or height has changed.
C22_PivotIsGradientCentre ==
    eqProps # <<>> =>
        /\ eqStatic.matrix.pivot = eqStatic.center
        /\ eqAnimated.matrix.pivot = eqAnimated.center

\* C23: for every value of flipProgress, overshoot included, exactly one
\* face of the expanded card accepts pointer events: the front face when
\* flipProgress <= 0.5 (rotated at most 90 degrees), the back face when
\* flipProgress > 0.5; never both and never neither.
C23_ExactlyOneFaceAcceptsPointer ==
    fcFront # <<>> =>
        /\ (fcFront.pointerEvents = "auto") # (fcBack.pointerEvents = "auto")
        /\ (fcFront.pointerEvents = "auto") = (fcFlip <= 50)
        /\ (fcBack.pointerEvents = "auto") = (fcFlip > 50)
        /\ fcFront.pointerEvents = "auto" => fcFront.rotateY <= 90

C23_Witness ==
    /\ fcFront # <<>>
    /\ fcFlip = 50
    /\ fcFront.rotateY = 90
    /\ fcFront.pointerEvents = "auto"
    /\ fcBack.pointerEvents = "none"

\* C24: for all presets a and b and every t in [0,1], each highlight and
\* shadow channel of interpolateMetalColors(a, b, t) lies between the
\* corresponding channels of a and b, equals a's channel at t = 0 and b's
\* channel at t = 1.
C24_InterpolatesBetweenPresets ==
    imFrom # "none" =>
        \A ch \in {"highlight", "shadow"}, i \in 1..3 :
            LET a == DoubleOf(METAL_PRESETS[imFrom][ch][i])
                b == DoubleOf(METAL_PRESETS[imTo][ch][i])
                r == imColors[ch][i]
            IN  /\ \/ DoubleLeq(a, r) /\ DoubleLeq(r, b)
                   \/ DoubleLeq(b, r) /\ DoubleLeq(r, a)
                /\ imT = 0 => r = a
                /\ imT = 4 => r = b

\* C25: onOpen and onClose strictly alternate, starting with onOpen.
\* onOpen is called by the measureInWindow callback together with
\* setIsExpanded(true), onClose by the close timer together with
\* setIsExpanded(false), and nothing else sets isExpanded: the last call
\* was onOpen exactly when isExpanded holds.  So every onOpen has to find
\* isExpanded false and every onClose has to find it true.
C25_OpenCloseAlternate ==
    [][/\ pcMeasures' < pcMeasures => ~isExpanded
       /\ Len(pcTimers') < Len(pcTimers) => isExpanded]_vars

\* C26: whenever the portal is unmounted and nothing is running or pending,
\* animationProgress is 0 and the trigger card is shown at opacity 1.
C26_NoInvisibleRestingState ==
    (pcProps # <<>> /\ ~isExpanded /\ PortalAtRest) =>
        (animationProgress.value = 0 /\ TriggerOpacity(animationProgress) = 100)

\* C27: while a fly-in animation is running (isAnimating true) start() has
\* no effect: over every step that leaves isAnimating true the spring is
\* neither restarted nor retargeted and onAnimationStart is not called
\* again, so at most one fly-in animation is in flight.
C27_StartIgnoredWhileAnimating ==
    [][(isAnimating /\ isAnimating') =>
           /\ ktSpring'.from = ktSpring.from
           /\ ktSpring'.to = ktSpring.to
           /\ ktSpring'.elapsed >= ktSpring.elapsed
           /\ ktSpring'.running
           /\ ktStarts' = ktStarts]_vars

C27_Witness ==
    /\ ktIgnored
    /\ isAnimating
    /\ ktSpring.running
    /\ ktSpring.elapsed > 0
    /\ ktStarts = 1

\* C28: when the spring has settled at its target 1 + 0.08 * text.length,
\* every character is fully shown (local progress 1, opacity 1, no offset
\* or rotation), for every text length and every staggerDelay from 0 to 1,
\* with and without the laggy quantisation.
C28_SettledShowsEveryChar ==
    (chProps # <<>> /\ chProgress = TotalTarget(chProps.textLength)) =>
        \A k \in 1..chProps.textLength :
            /\ chStyles[k].localProgress = 1000
            /\ chStyles[k].opacity = 1000
            /\ chStyles[k].translateY = 0
            /\ chStyles[k].rotateX = 0
            /\ chStyles[k].rotateZ = 0

\* C29: once all scheduled updates have run (no write, no reaction and no
\* setPlayIcon is pending), the icon shows 'pause' exactly when
\* startAnimation is true, and then the border rotates continuously;
\* it shows 'play-arrow' exactly when startAnimation is false, and then the
\* rotation is returning to or resting at 0.
C29_IconFollowsStartAnimation ==
    (playIcon # "none" /\ gbWrites = <<>> /\ ~gbReactionDue /\ gbScheduled = <<>>)
        => /\ (playIcon = "pause") = startAnimation
           /\ (playIcon = "play-arrow") = ~startAnimation
           /\ startAnimation => gbRotateX = "repeatTo360"
           /\ ~startAnimation => gbRotateX \in {"timingTo0", "rest0"}

C29_Witness ==
    /\ gbPresses = 3
    /\ gbWrites = <<>> /\ ~gbReactionDue /\ gbScheduled = <<>>
    /\ startAnimation
    /\ playIcon = "pause"
    /\ gbRotateX = "repeatTo360"

\* C30: for innerPaddingPercentage in [0, 0.5] the inner edge of the ring
\* drawn by AdaptableSkiaLiveBorderCard coincides with its content view: the
\* inner rectangle is inset by innerPadding = min(width, height) *
\* innerPaddingPercentage on every side, has non-negative size, and its
\* radius is the content's borderRadius.
C30_RingInnerEdgeIsContentEdge ==
    (ringHost = "AdaptableSkiaLiveBorderCard"
     /\ cardProps.innerPaddingPercentage <= 50) =>
        LET inner == clipPath["AnimatedSkiaRingBorder"].inner
            content == ContentView(cardProps)
        IN  /\ content.inset * 100
                   = Min(cardProps.width, cardProps.height)
                         * cardProps.innerPaddingPercentage
            /\ inner.rect = XYWHRect(content.inset, content.inset,
                                     cardProps.width - 2 * content.inset,
                                     cardProps.height - 2 * content.inset)
            /\ inner.rect.w >= 0 /\ inner.rect.h >= 0
            /\ inner.rx = content.borderRadius
            /\ inner.ry = content.borderRadius

C30_Witness ==
    /\ ringHost = "AdaptableSkiaLiveBorderCard"
    /\ cardProps.innerPaddingPercentage = 50
    /\ cardProps.width = 300 /\ cardProps.height = 200
    /\ cardProps.borderRadius = 20
    /\ clipPath["AnimatedSkiaRingBorder"].inner
           = RRectXY(XYWHRect(100, 100, 100, 0), 20, 20)

====
